---------------------------- MODULE Spec2Model ----------------------------
(***************************************************************************)
(* Model of the listing ingestion pipeline of analyse_marche_immobilier:   *)
(*   - src/src/scraper_locamoi.py : paginated scraping of one              *)
(*     (city, property_type) task and the thread-pool orchestrator;        *)
(*   - src/src/clean_data.py      : the PositionStack geocoding resolver.  *)
(* The two stages never run at the same time (the second reads the CSV the *)
(* first wrote), so each has its own specification over its own variables: *)
(* SpecScrape / FairScrape and SpecGeo.                                    *)
(***************************************************************************)
EXTENDS Integers, Sequences, FiniteSets, TLC

(***************************************************************************)
(* Bounds of the model.                                                    *)
(***************************************************************************)
\* pages a task may fetch (the code's default for max_pages is 50)
max_pages == 2
\* largest pool size the two thread pools are created with (main() passes 4
\* to the scraper, the geocoder's default is 16)
MaxWorkers == 2
\* rows of the DataFrame handed to the geocoder
NumRecords == 2

\* the title nodes of the page given to extract_listings_from_html
MaxTitles == 2

\* the regions and the prefectures per region of the smaller gazetteers
MaxRegions == 2

MaxCities == 2

(***************************************************************************)
(* constants.py                                                            *)
(***************************************************************************)
\* keys of PROPERTY_TYPES, cut down to a category with a type check
\* (maison) and a broad one (studio)
PROPERTY_TYPE_KEYS == <<"maison", "studio">>

\* PROPERTY_TYPES[key]["label"].lower()
property_type_label(key) ==
    CASE key = "chambre" -> "chambre"
      [] key = "maison" -> "maison"
      [] key = "appartement" -> "appartement"
      [] key = "studio" -> "studio"
      [] OTHER -> "appartement étudiant"

\* the gazetteer, cut down to one region with one prefecture
REGIONS == <<"Ile-de-France">>

FRANCE_PREFECTURES == [r \in {"Ile-de-France"} |-> <<"Paris">>]

\* FRANCE_PREFECTURES.items() as constants.py writes it: the regions in the
\* order of the dict, each with the list of its prefectures
CONFIGURED_PREFECTURES ==
    <<[region |-> "Ile-de-France",
       cities |->
          <<"Paris", "Créteil", "Versailles", "Nanterre", "Bobigny",
            "Melun", "Évry-Courcouronnes", "Pontoise">>],
      [region |-> "Hauts-de-France",
       cities |->
          <<"Lille", "Arras", "Amiens", "Beauvais", "Laon">>],
      [region |-> "Normandie",
       cities |->
          <<"Rouen", "Caen", "Évreux", "Saint-Lô", "Alençon">>],
      [region |-> "Grand Est",
       cities |->
          <<"Strasbourg", "Metz", "Nancy", "Châlons-en-Champagne",
            "Charleville-Mézières", "Chaumont", "Bar-le-Duc",
            "Colmar", "Mulhouse", "Troyes">>],
      [region |-> "Bretagne",
       cities |->
          <<"Rennes", "Quimper", "Vannes", "Saint-Brieuc">>],
      [region |-> "Pays de la Loire",
       cities |->
          <<"Nantes", "Angers", "Le Mans", "Laval", "La Roche-sur-Yon">>],
      [region |-> "Centre-Val de Loire",
       cities |->
          <<"Orléans", "Chartres", "Blois", "Tours", "Bourges",
            "Châteauroux">>],
      [region |-> "Bourgogne-Franche-Comté",
       cities |->
          <<"Dijon", "Auxerre", "Nevers", "Mâcon", "Besançon",
            "Belfort", "Vesoul", "Lons-le-Saunier">>],
      [region |-> "Nouvelle-Aquitaine",
       cities |->
          <<"Bordeaux", "Limoges", "Poitiers", "Périgueux", "Agen",
            "Montauban", "Pau", "Bayonne", "La Rochelle", "Angoulême",
            "Tulle", "Guéret">>],
      [region |-> "Occitanie",
       cities |->
          <<"Toulouse", "Montpellier", "Nîmes", "Perpignan",
            "Carcassonne", "Foix", "Rodez", "Albi", "Mende", "Tarbes">>],
      [region |-> "Auvergne-Rhône-Alpes",
       cities |->
          <<"Lyon", "Clermont-Ferrand", "Grenoble", "Saint-Étienne",
            "Annecy", "Chambéry", "Valence", "Le Puy-en-Velay",
            "Aurillac", "Moulins">>],
      [region |-> "Provence-Alpes-Côte d'Azur",
       cities |->
          <<"Marseille", "Nice", "Toulon", "Avignon", "Gap",
            "Digne-les-Bains">>]>>

\* city.replace(' ', '_').lower() for each prefecture of constants.py
city_slug(city) ==
    CASE city = "Paris" -> "paris"
      [] city = "Créteil" -> "créteil"
      [] city = "Versailles" -> "versailles"
      [] city = "Nanterre" -> "nanterre"
      [] city = "Bobigny" -> "bobigny"
      [] city = "Melun" -> "melun"
      [] city = "Évry-Courcouronnes" -> "évry-courcouronnes"
      [] city = "Pontoise" -> "pontoise"
      [] city = "Lille" -> "lille"
      [] city = "Arras" -> "arras"
      [] city = "Amiens" -> "amiens"
      [] city = "Beauvais" -> "beauvais"
      [] city = "Laon" -> "laon"
      [] city = "Rouen" -> "rouen"
      [] city = "Caen" -> "caen"
      [] city = "Évreux" -> "évreux"
      [] city = "Saint-Lô" -> "saint-lô"
      [] city = "Alençon" -> "alençon"
      [] city = "Strasbourg" -> "strasbourg"
      [] city = "Metz" -> "metz"
      [] city = "Nancy" -> "nancy"
      [] city = "Châlons-en-Champagne" -> "châlons-en-champagne"
      [] city = "Charleville-Mézières" -> "charleville-mézières"
      [] city = "Chaumont" -> "chaumont"
      [] city = "Bar-le-Duc" -> "bar-le-duc"
      [] city = "Colmar" -> "colmar"
      [] city = "Mulhouse" -> "mulhouse"
      [] city = "Troyes" -> "troyes"
      [] city = "Rennes" -> "rennes"
      [] city = "Quimper" -> "quimper"
      [] city = "Vannes" -> "vannes"
      [] city = "Saint-Brieuc" -> "saint-brieuc"
      [] city = "Nantes" -> "nantes"
      [] city = "Angers" -> "angers"
      [] city = "Le Mans" -> "le_mans"
      [] city = "Laval" -> "laval"
      [] city = "La Roche-sur-Yon" -> "la_roche-sur-yon"
      [] city = "Orléans" -> "orléans"
      [] city = "Chartres" -> "chartres"
      [] city = "Blois" -> "blois"
      [] city = "Tours" -> "tours"
      [] city = "Bourges" -> "bourges"
      [] city = "Châteauroux" -> "châteauroux"
      [] city = "Dijon" -> "dijon"
      [] city = "Auxerre" -> "auxerre"
      [] city = "Nevers" -> "nevers"
      [] city = "Mâcon" -> "mâcon"
      [] city = "Besançon" -> "besançon"
      [] city = "Belfort" -> "belfort"
      [] city = "Vesoul" -> "vesoul"
      [] city = "Lons-le-Saunier" -> "lons-le-saunier"
      [] city = "Bordeaux" -> "bordeaux"
      [] city = "Limoges" -> "limoges"
      [] city = "Poitiers" -> "poitiers"
      [] city = "Périgueux" -> "périgueux"
      [] city = "Agen" -> "agen"
      [] city = "Montauban" -> "montauban"
      [] city = "Pau" -> "pau"
      [] city = "Bayonne" -> "bayonne"
      [] city = "La Rochelle" -> "la_rochelle"
      [] city = "Angoulême" -> "angoulême"
      [] city = "Tulle" -> "tulle"
      [] city = "Guéret" -> "guéret"
      [] city = "Toulouse" -> "toulouse"
      [] city = "Montpellier" -> "montpellier"
      [] city = "Nîmes" -> "nîmes"
      [] city = "Perpignan" -> "perpignan"
      [] city = "Carcassonne" -> "carcassonne"
      [] city = "Foix" -> "foix"
      [] city = "Rodez" -> "rodez"
      [] city = "Albi" -> "albi"
      [] city = "Mende" -> "mende"
      [] city = "Tarbes" -> "tarbes"
      [] city = "Lyon" -> "lyon"
      [] city = "Clermont-Ferrand" -> "clermont-ferrand"
      [] city = "Grenoble" -> "grenoble"
      [] city = "Saint-Étienne" -> "saint-étienne"
      [] city = "Annecy" -> "annecy"
      [] city = "Chambéry" -> "chambéry"
      [] city = "Valence" -> "valence"
      [] city = "Le Puy-en-Velay" -> "le_puy-en-velay"
      [] city = "Aurillac" -> "aurillac"
      [] city = "Moulins" -> "moulins"
      [] city = "Marseille" -> "marseille"
      [] city = "Nice" -> "nice"
      [] city = "Toulon" -> "toulon"
      [] city = "Avignon" -> "avignon"
      [] city = "Gap" -> "gap"
      [] city = "Digne-les-Bains" -> "digne-les-bains"

(***************************************************************************)
(* Values                                                                  *)
(***************************************************************************)
\* Python's None
None == "None"

\* Python values: None, a float (rents and surfaces in hundredths), an int
PyNone == [t |-> "None", v |-> 0]
PyFloat(x) == [t |-> "float", v |-> x]
PyInt(x) == [t |-> "int", v |-> x]

\* a missing value of a DataFrame column
NaNCell == [t |-> "nan", v |-> 0]

\* a text node that matches TITLE_PATTERN: the groups ptype, rooms and
\* surface of the match, and the amount of the price node that follows it.
\* The group surface and the amount are sequences of characters, <<>> for
\* the amount when no price node follows; the group rooms is held as its
\* number of digits and its value
Title(ptype, rooms, surface, price) ==
    [ptype |-> ptype, rooms |-> rooms, surface |-> surface, price |-> price]

\* "3 chambres ... de 73m²" followed by "500 € / mois"
PlainTitle(ptype) ==
    Title(ptype, [len |-> 1, value |-> 3], <<"7", "3">>, <<"5", "0", "0">>)

\* the same with a surface that [\d\.,]+ matches and float() rejects
MalformedSurfaceTitle(ptype) ==
    Title(ptype, [len |-> 1, value |-> 3], <<"1", ".", "2", ".", "3">>,
          <<"5", "0", "0">>)

\* the text nodes of a result page that match TITLE_PATTERN, in document
\* order: none, a title without a type word, a title with one, and a title
\* with a type word followed by one without whose surface does not parse
TitleNodes ==
    {<<>>,
     <<PlainTitle(None)>>,
     <<PlainTitle("appartement")>>,
     <<PlainTitle("appartement"), MalformedSurfaceTitle(None)>>}

\* a result page: a non-empty body and its title nodes
Pages == [body : {"html"}, nodes : TitleNodes]

\* resp.text when the body is the empty string
EMPTY_BODY == [body |-> "", nodes |-> <<>>]

\* the None that fetch_page_html returns
NoPage == [body |-> None, nodes |-> <<>>]

\* what requests.get can do: a response with a status, a
\* requests.RequestException (timeout, connection error), or another error
Responses ==
    [kind : {"response"}, status : {200}, text : Pages \cup {EMPTY_BODY}]
    \cup [kind : {"response"}, status : {404}, text : {EMPTY_BODY}]
    \cup [kind : {"RequestException", "Exception"}, status : {0},
          text : {EMPTY_BODY}]

(***************************************************************************)
(* scrape_all_prefectures_parallel: the task list                          *)
(***************************************************************************)
RECURSIVE Flatten(_)
Flatten(ss) == IF ss = <<>> THEN <<>> ELSE Head(ss) \o Flatten(Tail(ss))

\* the loops stop after the first property type of the first city
tasks_first_type_only(items, keys) ==
    Flatten([ri \in 1..Len(items) |->
      Flatten([ci \in 1..Len(items[ri].cities) |->
        [ki \in 1..(IF ri = 1 /\ ci = 1 /\ keys # <<>> THEN 1 ELSE Len(keys)) |->
          [region |-> items[ri].region,
           city |-> items[ri].cities[ci],
           property_type_key |-> keys[ki]]]])])

\* lines 320-325: the three nested loops over the regions, the cities of
\* each region and the property types
tasks_of(items, keys) ==
    Flatten([ri \in 1..Len(items) |->
      Flatten([ci \in 1..Len(items[ri].cities) |->
        [ki \in 1..Len(keys) |->
          [region |-> items[ri].region,
           city |-> items[ri].cities[ci],
           property_type_key |-> keys[ki]]]])])

\* FRANCE_PREFECTURES.items() for the gazetteer the fetch stage runs on
prefecture_items ==
    [ri \in 1..Len(REGIONS) |->
       [region |-> REGIONS[ri], cities |-> FRANCE_PREFECTURES[REGIONS[ri]]]]

tasks == tasks_of(prefecture_items, PROPERTY_TYPE_KEYS)

TaskIds == 1..Len(tasks)

(***************************************************************************)
(* State                                                                   *)
(***************************************************************************)
VARIABLES
    \* --- scraper_locamoi.py ---
    max_workers,  \* the argument of scrape_all_prefectures_parallel
    opc,          \* where scrape_all_prefectures_parallel is
    futures,      \* tasks submitted to the executor
    yielded,      \* futures as_completed has handed to the loop
    results,      \* the aggregate
    errors,       \* "[ERROR] Échec pour ..." lines logged by the orchestrator
    pc,           \* per task: where scrape_city_property_type is
    page,         \* per task: the loop variable
    html,         \* per task: what fetch_page_html returned
    all_listings, \* per task: the accumulator
    fetched,      \* per task, history: page numbers requested, in order
    inflight,     \* per task, history: requests sent and not yet answered
    responses,    \* per task, history: what each request got
    reason,       \* per task, history: why the loop ended
    \* --- clean_data.py, add_gps_coordinates_positionstack ---
    gpc,             \* where add_gps_coordinates_positionstack is
    df,              \* the rows of the input DataFrame
    has_adresse,     \* "adresse" in df.columns
    api_key,         \* the api_key argument
    gps_max_workers, \* the max_workers argument
    unique_addrs,    \* sorted distinct non-empty normalized addresses
    wpc,             \* per future: where its _worker is
    wresult,         \* per future: what _worker returned
    gyielded,        \* futures as_completed has handed to the loop
    addr_to_coords,  \* the address -> (lat, lon) table
    out,             \* the rows of the returned DataFrame
    api_calls,       \* history: the query of every call to PositionStack
    geo_responses,   \* per future, history: what its call got
    writes,          \* history: the keys assigned in addr_to_coords
    \* --- clean_data.py, the module-level pipeline ---
    cstage,       \* the statement of the script that runs next
    cdf,          \* the module-level DataFrame df
    snap,         \* history: df as it was after each stage
    \* --- extract_listings_from_html on its own ---
    xkey,         \* the property_type_key argument
    xnodes,       \* the title nodes of the page
    xlistings,    \* the list returned
    xdone,        \* the call has returned
    int_max_str_digits,  \* sys.get_int_max_str_digits() of the interpreter
    \* --- the task list of scrape_all_prefectures_parallel on its own ---
    gazetteer,    \* FRANCE_PREFECTURES
    catalog,      \* the keys of PROPERTY_TYPES
    tstage,       \* where the function is
    tlist,        \* the list tasks
    tsubmitted    \* history: the argument tuples of executor.submit, in order

scrape_vars == <<max_workers, opc, futures, yielded, results, errors, pc, page, html,
                 all_listings, fetched, inflight, responses, reason>>

geo_vars == <<gpc, df, has_adresse, api_key, gps_max_workers, unique_addrs,
              wpc, wresult, gyielded, addr_to_coords, out, api_calls,
              geo_responses, writes>>

clean_vars == <<cstage, cdf, snap>>

extract_vars == <<xkey, xnodes, xlistings, xdone, int_max_str_digits>>

task_vars == <<gazetteer, catalog, tstage, tlist, tsubmitted>>

vars == <<scrape_vars, geo_vars, clean_vars, extract_vars, task_vars>>

(***************************************************************************)
(* fetch_page_html                                                         *)
(***************************************************************************)
\* the value returned for a response or a caught requests.RequestException
fetch_page_html(resp) ==
    IF resp.kind = "response"
    THEN IF resp.status # 200 THEN NoPage ELSE resp.text
    ELSE NoPage

\* an error that is no requests.RequestException leaves fetch_page_html
fetch_page_html_raises(resp) == resp.kind = "Exception"

\* Python's "not html" for Optional[str]
not_html(h) == h = NoPage \/ h.body = ""

(***************************************************************************)
(* extract_listings_from_html                                              *)
(***************************************************************************)
valid_ptypes == {"maison", "appartement", "studio", "chambre"}

\* line 187, str.lower() of the type word the pattern matched.  The pattern
\* is compiled with re.IGNORECASE, so the word can be in upper case, and the
\* "s" of the pattern also matches U+017F (LATIN SMALL LETTER LONG S), which
\* lower() leaves as it is; "mai(U+017F)on" stands for that spelling
lower(ptype_raw) ==
    CASE ptype_raw = "MAISON" -> "maison"
      [] OTHER -> ptype_raw

\* a non-broad task keeps every title with one of the four type words
accepts_any_type_word(property_type_key, ptype) ==
    ~(ptype # None /\ ptype \notin valid_ptypes)

\* lines 189-208: is the title match kept under this task's type
accepts(property_type_key, ptype) ==
    IF property_type_key \in {"appartement_etudiant", "studio"}
    THEN ~(ptype # None /\ ptype \notin valid_ptypes)
    ELSE IF ptype # None
         THEN ptype \in valid_ptypes
              /\ ptype = property_type_label(property_type_key)
         ELSE TRUE

(***************************************************************************)
(* _parse_price, _parse_surface_from_title, _parse_rooms_from_title        *)
(***************************************************************************)
Digits == {"0", "1", "2", "3", "4", "5", "6", "7", "8", "9"}

DigitValue(c) ==
    CASE c = "0" -> 0 [] c = "1" -> 1 [] c = "2" -> 2 [] c = "3" -> 3
      [] c = "4" -> 4 [] c = "5" -> 5 [] c = "6" -> 6 [] c = "7" -> 7
      [] c = "8" -> 8 [] c = "9" -> 9

\* the value of a string of digits, 0 for the empty string
RECURSIVE int_of(_)
int_of(s) ==
    IF s = <<>> THEN 0
    ELSE 10 * int_of(SubSeq(s, 1, Len(s) - 1)) + DigitValue(s[Len(s)])

\* str.replace(old, new) for single characters, new = "" removes
str_replace(s, old, new) ==
    IF new = ""
    THEN SelectSeq(s, LAMBDA c : c # old)
    ELSE [k \in 1..Len(s) |-> IF s[k] = old THEN new ELSE s[k]]

\* float(s) raises ValueError: s is not made of digits and at most one
\* dot, or has no digit
float_str_raises(s) ==
    \/ \E k \in 1..Len(s) : s[k] \notin Digits \cup {"."}
    \/ Cardinality({k \in 1..Len(s) : s[k] = "."}) > 1
    \/ \A k \in 1..Len(s) : s[k] = "."

\* float(s) in hundredths, for s with at most two decimals
float_str(s) ==
    LET dots == {k \in 1..Len(s) : s[k] = "."}
        d == IF dots = {} THEN Len(s) + 1 ELSE CHOOSE k \in dots : TRUE
        decimals == SubSeq(s, d + 1, Len(s))
    IN  100 * int_of(SubSeq(s, 1, d - 1))
        + (IF Len(decimals) = 1 THEN 10 * int_of(decimals)
           ELSE int_of(decimals))

\* sys.int_info.default_max_str_digits: int() of a longer string of
\* digits raises ValueError where the interpreter has the limit (CPython
\* 3.11 and the security releases of 3.7 to 3.10); an interpreter without
\* it, or with the limit switched off, reports 0 and int() takes any \d+
INT_MAX_STR_DIGITS == 4300

NO_LIMIT == 0

\* lines 56-69, for the amount of the price node found at lines 220-222
\* (no price node: price_text is "" and PRICE_PATTERN does not match)
_parse_price(amount) ==
    IF amount = <<>> THEN PyNone
    ELSE LET raw == str_replace(amount, " ", "")
         IN  IF float_str_raises(raw) THEN PyNone
             ELSE PyFloat(float_str(raw))

\* lines 72-83
_parse_surface_from_title(title) ==
    LET surface_str ==
           str_replace(str_replace(title.surface, ",", "."), " ", "")
    IN  IF float_str_raises(surface_str) THEN PyNone
        ELSE PyFloat(float_str(surface_str))

\* lines 86-96
_parse_rooms_from_title(title) ==
    IF /\ int_max_str_digits # NO_LIMIT
       /\ title.rooms.len > int_max_str_digits
    THEN PyNone
    ELSE PyInt(title.rooms.value)

\* build_dataset_from_records, lines 387-398: pd.to_numeric(errors="coerce")
\* of a cell of a numeric column; None becomes NaN
to_numeric(c) == IF c = PyNone THEN NaNCell ELSE PyFloat(c.v)

\* the id without the page
listing_id_without_page(property_type_key, city, p, idx) ==
    property_type_key \o "_" \o city_slug(city) \o "_" \o ToString(idx)

\* line 233: f"{property_type_key}_{city.replace(' ', '_').lower()}_p{page}_{idx}"
listing_id(property_type_key, city, p, idx) ==
    property_type_key \o "_" \o city_slug(city) \o "_p" \o ToString(p)
       \o "_" \o ToString(idx)

\* the loop over the title nodes from node n on, idx matches accepted so far
RECURSIVE extract_from_skip_unparsed(_, _, _, _, _)
\* the loop with a continue for a title whose surface or rooms do not parse
extract_from_skip_unparsed(nodes, n, idx, t, p) ==
    IF n > Len(nodes) THEN <<>>
    ELSE IF /\ accepts(t.property_type_key, lower(nodes[n].ptype))
            /\ _parse_surface_from_title(nodes[n]) # PyNone
            /\ _parse_rooms_from_title(nodes[n]) # PyNone
         THEN <<[id |-> listing_id(t.property_type_key, t.city, p, idx + 1),
                 type_bien |-> t.property_type_key,
                 titre |-> nodes[n],
                 ville |-> t.city,
                 region |-> t.region,
                 surface_m2 |-> _parse_surface_from_title(nodes[n]),
                 nb_pieces |-> _parse_rooms_from_title(nodes[n]),
                 loyer_mensuel_eur |-> _parse_price(nodes[n].price)]>>
              \o extract_from_skip_unparsed(nodes, n + 1, idx + 1, t, p)
         ELSE extract_from_skip_unparsed(nodes, n + 1, idx, t, p)

RECURSIVE extract_from(_, _, _, _, _)
extract_from(nodes, n, idx, t, p) ==
    IF n > Len(nodes) THEN <<>>
    ELSE IF accepts(t.property_type_key, lower(nodes[n].ptype))
         THEN <<[id |-> listing_id(t.property_type_key, t.city, p, idx + 1),
                 type_bien |-> t.property_type_key,
                 titre |-> nodes[n],
                 ville |-> t.city,
                 region |-> t.region,
                 surface_m2 |-> _parse_surface_from_title(nodes[n]),
                 nb_pieces |-> _parse_rooms_from_title(nodes[n]),
                 loyer_mensuel_eur |-> _parse_price(nodes[n].price)]>>
              \o extract_from(nodes, n + 1, idx + 1, t, p)
         ELSE extract_from(nodes, n + 1, idx, t, p)

extract_listings_from_html(h, t, p) == extract_from(h.nodes, 1, 0, t, p)

(***************************************************************************)
(* Initial state                                                           *)
(***************************************************************************)
InitScrape ==
    /\ max_workers \in 1..MaxWorkers
    /\ opc = "submit"
    /\ futures = {}
    /\ yielded = {}
    /\ results = <<>>
    /\ errors = 0
    /\ pc = [i \in TaskIds |-> "unsubmitted"]
    /\ page = [i \in TaskIds |-> 0]
    /\ html = [i \in TaskIds |-> NoPage]
    /\ all_listings = [i \in TaskIds |-> <<>>]
    /\ fetched = [i \in TaskIds |-> <<>>]
    /\ inflight = [i \in TaskIds |-> {}]
    /\ responses = [i \in TaskIds |-> <<>>]
    /\ reason = [i \in TaskIds |-> None]

(***************************************************************************)
(* scrape_city_property_type, run by a pool thread                         *)
(***************************************************************************)
Running == {i \in TaskIds : pc[i] \in {"loop", "fetching", "extract"}}

\* a pool that starts a queued task whether or not a thread is free
StartTask_unbounded(i) ==
    /\ pc[i] = "queued"
    /\ \A j \in TaskIds : j < i => pc[j] # "queued"
    /\ pc' = [pc EXCEPT ![i] = "loop"]
    /\ page' = [page EXCEPT ![i] = 1]
    /\ all_listings' = [all_listings EXCEPT ![i] = <<>>]
    /\ UNCHANGED <<max_workers, opc, futures, yielded, results, errors, html, fetched,
                   inflight, responses, reason>>
    /\ UNCHANGED <<geo_vars, clean_vars, extract_vars, task_vars>>

\* a free pool thread takes the oldest queued task; lines 268-276
StartTask(i) ==
    /\ pc[i] = "queued"
    /\ \A j \in TaskIds : j < i => pc[j] # "queued"
    /\ Cardinality(Running) < max_workers
    /\ pc' = [pc EXCEPT ![i] = "loop"]
    /\ page' = [page EXCEPT ![i] = 1]
    /\ all_listings' = [all_listings EXCEPT ![i] = <<>>]
    /\ UNCHANGED <<max_workers, opc, futures, yielded, results, errors, html, fetched,
                   inflight, responses, reason>>
    /\ UNCHANGED <<geo_vars, clean_vars, extract_vars, task_vars>>

\* FetchStart that requests the page after the one being processed as well
\* (a prefetch of page N+1 before page N is answered)
FetchStart_prefetch(i) ==
    /\ pc[i] = "loop"
    /\ pc' = [pc EXCEPT ![i] = "fetching"]
    /\ fetched' = [fetched EXCEPT ![i] = Append(Append(@, page[i]), page[i] + 1)]
    /\ inflight' = [inflight EXCEPT ![i] = @ \cup {page[i], page[i] + 1}]
    /\ UNCHANGED <<max_workers, opc, futures, yielded, results, errors, page,
                   html, all_listings, responses, reason>>
    /\ UNCHANGED <<geo_vars, clean_vars, extract_vars, task_vars>>

\* lines 277-280 up to the moment requests.get has sent the request
FetchStart(i) ==
    /\ pc[i] = "loop"
    /\ pc' = [pc EXCEPT ![i] = "fetching"]
    /\ fetched' = [fetched EXCEPT ![i] = Append(@, page[i])]
    /\ inflight' = [inflight EXCEPT ![i] = @ \cup {page[i]}]
    /\ UNCHANGED <<max_workers, opc, futures, yielded, results, errors, page, html,
                   all_listings, responses, reason>>
    /\ UNCHANGED <<geo_vars, clean_vars, extract_vars, task_vars>>

\* FetchEnd with "continue" in place of the "break" of line 283
FetchEnd_continue(i, resp) ==
    /\ pc[i] = "fetching"
    /\ inflight' = [inflight EXCEPT ![i] = @ \ {page[i]}]
    /\ responses' = [responses EXCEPT ![i] = Append(@, resp)]
    /\ IF fetch_page_html_raises(resp)
       THEN /\ pc' = [pc EXCEPT ![i] = "raised"]
            /\ UNCHANGED <<html, reason, page>>
       ELSE /\ html' = [html EXCEPT ![i] = fetch_page_html(resp)]
            /\ IF not_html(fetch_page_html(resp))
               THEN IF page[i] < max_pages
                    THEN /\ pc' = [pc EXCEPT ![i] = "loop"]
                         /\ page' = [page EXCEPT ![i] = @ + 1]
                         /\ UNCHANGED reason
                    ELSE /\ pc' = [pc EXCEPT ![i] = "returned"]
                         /\ reason' = [reason EXCEPT ![i] = "max_pages"]
                         /\ UNCHANGED page
               ELSE /\ pc' = [pc EXCEPT ![i] = "extract"]
                    /\ UNCHANGED <<reason, page>>
    /\ UNCHANGED <<max_workers, opc, futures, yielded, results, errors,
                   all_listings, fetched>>
    /\ UNCHANGED <<geo_vars, clean_vars, extract_vars, task_vars>>

\* requests.get returns or raises; lines 280-283
FetchEnd(i, resp) ==
    /\ pc[i] = "fetching"
    /\ inflight' = [inflight EXCEPT ![i] = @ \ {page[i]}]
    /\ responses' = [responses EXCEPT ![i] = Append(@, resp)]
    /\ IF fetch_page_html_raises(resp)
       THEN /\ pc' = [pc EXCEPT ![i] = "raised"]
            /\ UNCHANGED <<html, reason>>
       ELSE /\ html' = [html EXCEPT ![i] = fetch_page_html(resp)]
            /\ IF not_html(fetch_page_html(resp))
               THEN /\ pc' = [pc EXCEPT ![i] = "returned"]
                    /\ reason' = [reason EXCEPT ![i] = "fetch_failure"]
               ELSE /\ pc' = [pc EXCEPT ![i] = "extract"]
                    /\ UNCHANGED reason
    /\ UNCHANGED <<max_workers, opc, futures, yielded, results, errors, page,
                   all_listings, fetched>>
    /\ UNCHANGED <<geo_vars, clean_vars, extract_vars, task_vars>>

\* Extract without the "if not listings: break" of lines 293-297
Extract_no_break(i) ==
    /\ pc[i] = "extract"
    /\ LET listings == extract_listings_from_html(html[i], tasks[i], page[i])
       IN /\ all_listings' = [all_listings EXCEPT ![i] = @ \o listings]
          /\ IF page[i] < max_pages
             THEN /\ page' = [page EXCEPT ![i] = @ + 1]
                  /\ pc' = [pc EXCEPT ![i] = "loop"]
                  /\ UNCHANGED reason
             ELSE /\ pc' = [pc EXCEPT ![i] = "returned"]
                  /\ reason' = [reason EXCEPT ![i] = "max_pages"]
                  /\ UNCHANGED page
    /\ UNCHANGED <<max_workers, opc, futures, yielded, results, errors, html,
                   fetched, inflight, responses>>
    /\ UNCHANGED <<geo_vars, clean_vars, extract_vars, task_vars>>

\* Extract in a "while True" loop: no page limit
Extract_unbounded(i) ==
    /\ pc[i] = "extract"
    /\ LET listings == extract_listings_from_html(html[i], tasks[i], page[i])
       IN IF listings = <<>>
          THEN /\ pc' = [pc EXCEPT ![i] = "returned"]
               /\ reason' = [reason EXCEPT ![i] = "empty_extraction"]
               /\ UNCHANGED <<all_listings, page>>
          ELSE /\ all_listings' = [all_listings EXCEPT ![i] = @ \o listings]
               /\ page' = [page EXCEPT ![i] = @ + 1]
               /\ pc' = [pc EXCEPT ![i] = "loop"]
               /\ UNCHANGED reason
    /\ UNCHANGED <<max_workers, opc, futures, yielded, results, errors, html,
                   fetched, inflight, responses>>
    /\ UNCHANGED <<geo_vars, clean_vars, extract_vars, task_vars>>

\* lines 285-305: extraction, the end-of-results test, the accumulation and
\* the step of the for loop
Extract(i) ==
    /\ pc[i] = "extract"
    /\ LET listings == extract_listings_from_html(html[i], tasks[i], page[i])
       IN IF listings = <<>>
          THEN /\ pc' = [pc EXCEPT ![i] = "returned"]
               /\ reason' = [reason EXCEPT ![i] = "empty_extraction"]
               /\ UNCHANGED <<all_listings, page>>
          ELSE /\ all_listings' = [all_listings EXCEPT ![i] = @ \o listings]
               /\ IF page[i] < max_pages
                  THEN /\ page' = [page EXCEPT ![i] = @ + 1]
                       /\ pc' = [pc EXCEPT ![i] = "loop"]
                       /\ UNCHANGED reason
                  ELSE /\ pc' = [pc EXCEPT ![i] = "returned"]
                       /\ reason' = [reason EXCEPT ![i] = "max_pages"]
                       /\ UNCHANGED page
    /\ UNCHANGED <<max_workers, opc, futures, yielded, results, errors, html, fetched,
                   inflight, responses>>
    /\ UNCHANGED <<geo_vars, clean_vars, extract_vars, task_vars>>

(***************************************************************************)
(* scrape_all_prefectures_parallel                                         *)
(***************************************************************************)
\* lines 331-340: executor.submit for the next task of the list
Submit(i) ==
    /\ opc = "submit"
    /\ i = Cardinality(futures) + 1
    /\ futures' = futures \cup {i}
    /\ pc' = [pc EXCEPT ![i] = "queued"]
    /\ opc' = IF i = Len(tasks) THEN "collect" ELSE "submit"
    /\ UNCHANGED <<max_workers, yielded, results, errors, page, html, all_listings,
                   fetched, inflight, responses, reason>>
    /\ UNCHANGED <<geo_vars, clean_vars, extract_vars, task_vars>>

\* Collect without the try/except of lines 344-354: the task's exception
\* leaves scrape_all_prefectures_parallel
Collect_no_except(i) ==
    /\ opc = "collect"
    /\ i \in futures \ yielded
    /\ pc[i] \in {"returned", "raised"}
    /\ yielded' = yielded \cup {i}
    /\ IF pc[i] = "returned"
       THEN /\ results' = results \o all_listings[i]
            /\ UNCHANGED <<errors, opc>>
       ELSE /\ opc' = "aborted"
            /\ UNCHANGED <<results, errors>>
    /\ UNCHANGED <<max_workers, futures, pc, page, html, all_listings,
                   fetched, inflight, responses, reason>>
    /\ UNCHANGED <<geo_vars, clean_vars, extract_vars, task_vars>>

\* Collect with "results = listings" in place of results.extend(listings)
Collect_assign(i) ==
    /\ opc = "collect"
    /\ i \in futures \ yielded
    /\ pc[i] \in {"returned", "raised"}
    /\ yielded' = yielded \cup {i}
    /\ IF pc[i] = "returned"
       THEN /\ results' = all_listings[i]
            /\ UNCHANGED errors
       ELSE /\ errors' = errors + 1
            /\ UNCHANGED results
    /\ UNCHANGED <<max_workers, opc, futures, pc, page, html, all_listings,
                   fetched, inflight, responses, reason>>
    /\ UNCHANGED <<geo_vars, clean_vars, extract_vars, task_vars>>

\* lines 342-354: as_completed yields a finished future; future.result()
\* returns the task's list or raises the task's exception
Collect(i) ==
    /\ opc = "collect"
    /\ i \in futures \ yielded
    /\ pc[i] \in {"returned", "raised"}
    /\ yielded' = yielded \cup {i}
    /\ IF pc[i] = "returned"
       THEN /\ results' = results \o all_listings[i]
            /\ UNCHANGED errors
       ELSE /\ errors' = errors + 1
            /\ UNCHANGED results
    /\ UNCHANGED <<max_workers, opc, futures, pc, page, html, all_listings, fetched,
                   inflight, responses, reason>>
    /\ UNCHANGED <<geo_vars, clean_vars, extract_vars, task_vars>>

\* lines 356-357: the loop and the with block are over
Return ==
    /\ opc = "collect"
    /\ yielded = futures
    /\ opc' = "returned"
    /\ UNCHANGED <<max_workers, futures, yielded, results, errors, pc, page,
                   html, all_listings, fetched, inflight, responses, reason>>
    /\ UNCHANGED <<geo_vars, clean_vars, extract_vars, task_vars>>

NextScrape ==
    \/ \E i \in TaskIds : Submit(i)
    \/ \E i \in TaskIds : StartTask(i)
    \/ \E i \in TaskIds : FetchStart(i)
    \/ \E i \in TaskIds : \E resp \in Responses : FetchEnd(i, resp)
    \/ \E i \in TaskIds : Extract(i)
    \/ \E i \in TaskIds : Collect(i)
    \/ Return

(***************************************************************************)
(* clean_data.py: values                                                   *)
(***************************************************************************)
\* a missing address as pandas reads it from the CSV
NaN == <<"NaN">>

\* the addresses of the rows, as sequences of characters: missing, empty,
\* blank, and two addresses with and without surrounding whitespace
RawAddresses ==
    {NaN, <<>>, <<" ">>, <<"a">>, <<" ", "a">>, <<"a", " ">>, <<"b">>}

\* JSON values of the PositionStack payload and Python values made of them
JNull == [t |-> "null", v |-> 0]
JString == [t |-> "str", v |-> 0]
JNumber(x) == [t |-> "num", v |-> x]

NoneNone == <<PyNone, PyNone>>

\* what the call to the forward endpoint can get: a transport error, an
\* error status, or a 200 whose "data" is empty or holds one result with a
\* latitude and a longitude that are null, a non-numeric string or a number
GeoResponses ==
    {[kind |-> "RequestException", status |-> 0, data |-> <<>>],
     [kind |-> "response", status |-> 500, data |-> <<>>],
     [kind |-> "response", status |-> 200, data |-> <<>>]}
    \cup {[kind |-> "response", status |-> 200,
           data |-> <<[latitude |-> la, longitude |-> lo]>>] :
             la \in {JNull, JString, JNumber(4885)},
             lo \in {JNull, JString, JNumber(235)}}

NoResponse == [kind |-> "none", status |-> 0, data |-> <<>>]

\* the key written in the source, used when api_key is None
HARDCODED_KEY == "10e36aa9300d1d59f96a167abd426897"

(***************************************************************************)
(* add_gps_coordinates_positionstack: normalisation and deduplication      *)
(***************************************************************************)
\* df["adresse"].fillna("").astype(str)
fillna_str(a) == IF a = NaN THEN <<>> ELSE a

RECURSIVE lstrip(_)
lstrip(s) == IF s # <<>> /\ Head(s) = " " THEN lstrip(Tail(s)) ELSE s

RECURSIVE rstrip(_)
rstrip(s) ==
    IF s # <<>> /\ s[Len(s)] = " "
    THEN rstrip(SubSeq(s, 1, Len(s) - 1))
    ELSE s

\* str.strip()
strip(s) == rstrip(lstrip(s))

normalized_addresses(d) ==
    [r \in 1..Len(d) |-> strip(fillna_str(d[r].adresse))]

\* the order of Python strings, by code point
CharCode(c) == CASE c = " " -> 32 [] c = "a" -> 97 [] OTHER -> 98

RECURSIVE LexLess(_, _)
LexLess(s, t) ==
    IF t = <<>> THEN FALSE
    ELSE IF s = <<>> THEN TRUE
    ELSE IF Head(s) # Head(t) THEN CharCode(Head(s)) < CharCode(Head(t))
    ELSE LexLess(Tail(s), Tail(t))

RECURSIVE sorted(_)
sorted(S) ==
    IF S = {} THEN <<>>
    ELSE LET m == CHOOSE x \in S : \A y \in S \ {x} : LexLess(x, y)
         IN <<m>> \o sorted(S \ {m})

\* a list of the non-empty normalized addresses, one per row: no set()
unique_addrs_per_row(d) ==
    SelectSeq(normalized_addresses(d), LAMBDA a : a # <<>>)

\* line 258: sorted(set(a for a in normalized_addresses if a))
unique_addrs_of(d) ==
    sorted({normalized_addresses(d)[r] : r \in 1..Len(d)} \ {<<>>})

(***************************************************************************)
(* geocode_address_positionstack                                           *)
(***************************************************************************)
\* float(x) raises ValueError
float_raises(j) == j.t = "str"

float(j) == PyFloat(j.v)

\* lines 200-204 with one try per field: a field that does not parse is
\* None and the other one is kept
geocode_per_field(resp) ==
    IF resp.kind # "response" \/ resp.status # 200 \/ resp.data = <<>>
    THEN NoneNone
    ELSE LET first == resp.data[1]
         IN <<IF first.latitude.t = "num"
              THEN float(first.latitude) ELSE PyNone,
              IF first.longitude.t = "num"
              THEN float(first.longitude) ELSE PyNone>>

\* lines 186-210: what the function returns for what requests.get got
geocode_address_positionstack(resp) ==
    IF resp.kind # "response" THEN NoneNone
    ELSE IF resp.status # 200 THEN NoneNone
    ELSE IF resp.data = <<>> THEN NoneNone
    ELSE LET first == resp.data[1]
             lat == first.latitude
             lon == first.longitude
         IN IF \/ lat.t # "null" /\ float_raises(lat)
               \/ lon.t # "null" /\ float_raises(lon)
            THEN NoneNone
            ELSE <<IF lat.t # "null" THEN float(lat) ELSE PyNone,
                   IF lon.t # "null" THEN float(lon) ELSE PyNone>>

(***************************************************************************)
(* add_gps_coordinates_positionstack                                       *)
(***************************************************************************)
Futures == 1..Len(unique_addrs)

\* addr_to_coords[a] = c
Put(d, a, c) == [x \in DOMAIN d \cup {a} |-> IF x = a THEN c ELSE d[x]]

\* addr_to_coords.get(a, (None, None))
Get(d, a) == IF a \in DOMAIN d THEN d[a] ELSE NoneNone

InitGeo ==
    /\ gpc = "start"
    /\ gps_max_workers \in 1..MaxWorkers
    /\ \/ /\ has_adresse = TRUE
          /\ df \in [1..NumRecords -> [adresse : RawAddresses]]
          /\ api_key \in {None, ""}
       \/ /\ has_adresse = FALSE
          /\ df = [r \in 1..NumRecords |-> [adresse |-> NaN]]
          /\ api_key = None
    /\ unique_addrs = <<>>
    /\ wpc = <<>>
    /\ wresult = <<>>
    /\ gyielded = {}
    /\ addr_to_coords = <<>>
    /\ out = <<>>
    /\ api_calls = <<>>
    /\ geo_responses = <<>>
    /\ writes = <<>>

\* the function without its two configuration checks
GeoBegin_unchecked ==
    /\ gpc = "start"
    /\ api_key' = IF api_key = None THEN HARDCODED_KEY ELSE api_key
    /\ unique_addrs' = unique_addrs_of(df)
    /\ wpc' = [k \in 1..Len(unique_addrs_of(df)) |-> "unsubmitted"]
    /\ wresult' = [k \in 1..Len(unique_addrs_of(df)) |-> NoneNone]
    /\ geo_responses' = [k \in 1..Len(unique_addrs_of(df)) |-> NoResponse]
    /\ gpc' = IF unique_addrs_of(df) = <<>> THEN "collect" ELSE "submit"
    /\ UNCHANGED <<df, has_adresse, gps_max_workers, gyielded, addr_to_coords,
                   out, api_calls, writes>>
    /\ UNCHANGED <<scrape_vars, clean_vars, extract_vars, task_vars>>

\* lines 236-261: the two configuration checks, then the address keys
GeoBegin ==
    /\ gpc = "start"
    /\ IF ~has_adresse \/ (IF api_key = None THEN HARDCODED_KEY ELSE api_key) = ""
       THEN /\ gpc' = "raised"
            /\ UNCHANGED <<api_key, unique_addrs, wpc, wresult, geo_responses>>
       ELSE /\ api_key' = IF api_key = None THEN HARDCODED_KEY ELSE api_key
            /\ unique_addrs' = unique_addrs_of(df)
            /\ wpc' = [k \in 1..Len(unique_addrs_of(df)) |-> "unsubmitted"]
            /\ wresult' = [k \in 1..Len(unique_addrs_of(df)) |-> NoneNone]
            /\ geo_responses' =
                  [k \in 1..Len(unique_addrs_of(df)) |-> NoResponse]
            /\ gpc' = IF unique_addrs_of(df) = <<>> THEN "collect" ELSE "submit"
    /\ UNCHANGED <<df, has_adresse, gps_max_workers, gyielded, addr_to_coords,
                   out, api_calls, writes>>
    /\ UNCHANGED <<scrape_vars, clean_vars, extract_vars, task_vars>>

\* lines 275-279: executor.submit(_worker, addr) for the next address
GeoSubmit(k) ==
    /\ gpc = "submit"
    /\ k \in Futures
    /\ wpc[k] = "unsubmitted"
    /\ \A j \in Futures : j < k => wpc[j] # "unsubmitted"
    /\ wpc' = [wpc EXCEPT ![k] = "queued"]
    /\ gpc' = IF k = Len(unique_addrs) THEN "collect" ELSE "submit"
    /\ UNCHANGED <<df, has_adresse, api_key, gps_max_workers, unique_addrs,
                   wresult, gyielded, addr_to_coords, out, api_calls,
                   geo_responses, writes>>
    /\ UNCHANGED <<scrape_vars, clean_vars, extract_vars, task_vars>>

Calling == {k \in Futures : wpc[k] = "calling"}

\* a free pool thread takes the oldest queued address: _worker calls
\* geocode_address_positionstack, which returns at once for an empty
\* address (line 159), raises for an empty key (line 167; the collecting
\* loop turns that into (None, None)) and sends the request otherwise
\* (line 187)
WorkerStart(k) ==
    /\ k \in Futures
    /\ wpc[k] = "queued"
    /\ \A j \in Futures : j < k => wpc[j] # "queued"
    /\ Cardinality(Calling) < gps_max_workers
    /\ IF unique_addrs[k] = <<>> \/ api_key = ""
       THEN /\ wpc' = [wpc EXCEPT ![k] = "done"]
            /\ UNCHANGED api_calls
       ELSE /\ wpc' = [wpc EXCEPT ![k] = "calling"]
            /\ api_calls' = Append(api_calls, unique_addrs[k])
    /\ UNCHANGED <<gpc, df, has_adresse, api_key, gps_max_workers,
                   unique_addrs, wresult, gyielded, addr_to_coords, out,
                   geo_responses, writes>>
    /\ UNCHANGED <<scrape_vars, clean_vars, extract_vars, task_vars>>

\* the request is answered or fails; _worker returns (addr, (lat, lon))
WorkerEnd(k, resp) ==
    /\ k \in Futures
    /\ wpc[k] = "calling"
    /\ geo_responses' = [geo_responses EXCEPT ![k] = resp]
    /\ wresult' = [wresult EXCEPT ![k] = geocode_address_positionstack(resp)]
    /\ wpc' = [wpc EXCEPT ![k] = "done"]
    /\ UNCHANGED <<gpc, df, has_adresse, api_key, gps_max_workers,
                   unique_addrs, gyielded, addr_to_coords, out, api_calls,
                   writes>>
    /\ UNCHANGED <<scrape_vars, clean_vars, extract_vars, task_vars>>

\* lines 281-290: as_completed yields a finished future and the main thread
\* stores its coordinates
GeoCollect(k) ==
    /\ gpc = "collect"
    /\ k \in Futures \ gyielded
    /\ wpc[k] = "done"
    /\ gyielded' = gyielded \cup {k}
    /\ addr_to_coords' = Put(addr_to_coords, unique_addrs[k], wresult[k])
    /\ writes' = Append(writes, unique_addrs[k])
    /\ UNCHANGED <<gpc, df, has_adresse, api_key, gps_max_workers,
                   unique_addrs, wpc, wresult, out, api_calls, geo_responses>>
    /\ UNCHANGED <<scrape_vars, clean_vars, extract_vars, task_vars>>

\* GeoMap that looks the raw address up with setdefault
GeoMap_setdefault ==
    /\ gpc = "collect"
    /\ gyielded = Futures
    /\ out' = [r \in 1..Len(df) |->
                 [adresse |-> df[r].adresse,
                  lat |-> Get(addr_to_coords, normalized_addresses(df)[r])[1],
                  lon |-> Get(addr_to_coords, normalized_addresses(df)[r])[2]]]
    /\ addr_to_coords' =
          [a \in DOMAIN addr_to_coords
                 \cup {fillna_str(df[r].adresse) : r \in 1..Len(df)} |->
             Get(addr_to_coords, a)]
    /\ gpc' = "returned"
    /\ UNCHANGED <<df, has_adresse, api_key, gps_max_workers, unique_addrs,
                   wpc, wresult, gyielded, api_calls, geo_responses, writes>>
    /\ UNCHANGED <<scrape_vars, clean_vars, extract_vars, task_vars>>

\* GeoMap that looks up the address as it is in the row, not stripped
GeoMap_raw ==
    /\ gpc = "collect"
    /\ gyielded = Futures
    /\ out' = [r \in 1..Len(df) |->
                 [adresse |-> df[r].adresse,
                  lat |-> Get(addr_to_coords, fillna_str(df[r].adresse))[1],
                  lon |-> Get(addr_to_coords, fillna_str(df[r].adresse))[2]]]
    /\ gpc' = "returned"
    /\ UNCHANGED <<df, has_adresse, api_key, gps_max_workers, unique_addrs,
                   wpc, wresult, gyielded, addr_to_coords, api_calls,
                   geo_responses, writes>>
    /\ UNCHANGED <<scrape_vars, clean_vars, extract_vars, task_vars>>

\* lines 292-308: the pool is shut down, every row gets its coordinates
GeoMap ==
    /\ gpc = "collect"
    /\ gyielded = Futures
    /\ out' = [r \in 1..Len(df) |->
                 LET addr_norm == normalized_addresses(df)[r]
                 IN [adresse |-> df[r].adresse,
                     lat |-> IF addr_norm = <<>> THEN PyNone
                             ELSE Get(addr_to_coords, addr_norm)[1],
                     lon |-> IF addr_norm = <<>> THEN PyNone
                             ELSE Get(addr_to_coords, addr_norm)[2]]]
    /\ gpc' = "returned"
    /\ UNCHANGED <<df, has_adresse, api_key, gps_max_workers, unique_addrs,
                   wpc, wresult, gyielded, addr_to_coords, api_calls,
                   geo_responses, writes>>
    /\ UNCHANGED <<scrape_vars, clean_vars, extract_vars, task_vars>>

NextGeo ==
    \/ GeoBegin
    \/ \E k \in Futures : GeoSubmit(k)
    \/ \E k \in Futures : WorkerStart(k)
    \/ \E k \in Futures : \E resp \in GeoResponses : WorkerEnd(k, resp)
    \/ \E k \in Futures : GeoCollect(k)
    \/ GeoMap

(***************************************************************************)
(* clean_data.py: the rows of the CSV and the cleaning functions           *)
(***************************************************************************)
\* the thresholds written in clean_extreme_values, in euros and in m2
MAX_RENT == 15000

MAX_SURFACE == 1000

\* rents and surfaces are held in hundredths, prix_m2 in tenths
Cents(x) == 100 * x

\* a numeric cell that is missing, and one that holds float("inf")
InfCell == [t |-> "inf", v |-> 0]

\* Series.notna(): inf is not a missing value
notna(c) == c.t # "nan"

\* a row the scraper wrote: 20 m2, one room, 500 euros.  The ids of the
\* CSV are distinct; the number of the row in the CSV stands for its id
Base ==
    [id |-> 0, type_bien |-> "maison", titre |-> "t1", ville |-> "Paris",
     surface_m2 |-> PyFloat(2000), nb_pieces |-> PyFloat(1),
     loyer_mensuel_eur |-> PyFloat(50000), adresse |-> <<"a">>, url |-> "u"]

\* the rows of locamoi_tous_types.csv: the base row, rows equal to it but
\* for the type, or for the case of the city and the blanks of the address,
\* rows with one core field missing, a row of surface 0, a row at both
\* thresholds of clean_extreme_values and rows one hundredth above each
CsvRows ==
    {Base,
     [Base EXCEPT !.type_bien = "studio"],
     [Base EXCEPT !.ville = "paris", !.adresse = <<" ", "a">>],
     [Base EXCEPT !.surface_m2 = NaNCell, !.adresse = <<"b">>],
     [Base EXCEPT !.nb_pieces = NaNCell],
     [Base EXCEPT !.loyer_mensuel_eur = NaNCell],
     [Base EXCEPT !.surface_m2 = PyFloat(0), !.titre = "t0"],
     [Base EXCEPT !.surface_m2 = PyFloat(Cents(MAX_SURFACE)),
                  !.loyer_mensuel_eur = PyFloat(Cents(MAX_RENT)),
                  !.titre = "t2", !.adresse = <<"b">>],
     [Base EXCEPT !.surface_m2 = PyFloat(Cents(MAX_SURFACE) + 1)],
     [Base EXCEPT !.loyer_mensuel_eur = PyFloat(Cents(MAX_RENT) + 1),
                  !.adresse = <<"b">>]}

\* lines 26-33: lower case, accents removed, blanks stripped
normalize_ville(v) ==
    CASE v = "Paris" -> "paris"
      [] OTHER -> v

\* lines 53-59
subset_cols(r) ==
    <<r.titre, r.ville, r.surface_m2, r.nb_pieces, r.loyer_mensuel_eur>>

RECURSIVE drop_duplicates_first(_, _)
\* DataFrame.drop_duplicates(subset=subset_cols, keep="first") from row n on:
\* a row goes when a row before it has the same values in subset_cols
\* (two missing values count as the same value)
drop_duplicates_first(d, n) ==
    IF n > Len(d) THEN <<>>
    ELSE (IF \E j \in 1..(n - 1) : subset_cols(d[j]) = subset_cols(d[n])
          THEN <<>> ELSE <<d[n]>>)
         \o drop_duplicates_first(d, n + 1)

RECURSIVE drop_duplicates_last(_, _)
\* keep="last" in the place of keep="first"
drop_duplicates_last(d, n) ==
    IF n > Len(d) THEN <<>>
    ELSE (IF \E j \in (n + 1)..Len(d) : subset_cols(d[j]) = subset_cols(d[n])
          THEN <<>> ELSE <<d[n]>>)
         \o drop_duplicates_last(d, n + 1)

remove_exact_duplicates_last(d) ==
    IF d = <<>> THEN d ELSE drop_duplicates_last(d, 1)

\* lines 35-69
remove_exact_duplicates(d) ==
    IF d = <<>> THEN d ELSE drop_duplicates_first(d, 1)

\* the rows kept, last row first
drop_rows_reversed(d) ==
    LET kept == SelectSeq(d, LAMBDA r : /\ notna(r.loyer_mensuel_eur)
                                        /\ notna(r.surface_m2)
                                        /\ notna(r.nb_pieces))
    IN  [k \in 1..Len(kept) |-> kept[Len(kept) + 1 - k]]

\* the mask without the test of nb_pieces
drop_rows_without_rooms_test(d) ==
    SelectSeq(d, LAMBDA r : /\ notna(r.loyer_mensuel_eur)
                            /\ notna(r.surface_m2))

\* lines 73-97
drop_rows_with_missing_core_fields(d) ==
    SelectSeq(d, LAMBDA r : /\ notna(r.loyer_mensuel_eur)
                            /\ notna(r.surface_m2)
                            /\ notna(r.nb_pieces))

\* round(a / b, 1) for a >= 0 and b > 0, in tenths: numpy rounds a half to
\* the even neighbour
round1(a, b) ==
    LET q == (10 * a) \div b
        m == (10 * a) % b
    IN  IF 2 * m > b THEN q + 1
        ELSE IF 2 * m = b THEN q + (q % 2)
        ELSE q

\* line 122: the division of two float64 cells and its rounding
prix_m2_of(rent, surface) ==
    IF rent.t = "nan" \/ surface.t = "nan" THEN NaNCell
    ELSE IF surface.v = 0
         THEN (IF rent.v = 0 THEN NaNCell ELSE InfCell)
         ELSE PyFloat(round1(rent.v, surface.v))

\* line 125: replace([inf, -inf], pd.NA, inplace=True) on df[output_col].
\* It reaches the column of df when df[output_col] is the column itself;
\* under Copy-on-Write (pandas 3) df[output_col] is a new Series and df
\* keeps the infinite values.  No version of pandas is pinned.
replace_inf(c, copy_on_write) ==
    IF c.t = "inf" /\ ~copy_on_write THEN NaNCell ELSE c

\* lines 101-127
add_price_per_m2_column(d, copy_on_write) ==
    [k \in 1..Len(d) |->
        ("prix_m2" :> replace_inf(prix_m2_of(d[k].loyer_mensuel_eur,
                                             d[k].surface_m2),
                                  copy_on_write))
        @@ d[k]]

\* lines 313-321
drop_url_column(d) ==
    [k \in 1..Len(d) |-> [f \in DOMAIN d[k] \ {"url"} |-> d[k][f]]]

\* Series <= number: False for a missing value and for +inf
le(c, x) == c.t = "float" /\ c.v <= x

\* strict comparisons in the place of <=
clean_extreme_values_strict(d) ==
    SelectSeq(SelectSeq(d, LAMBDA r : r.loyer_mensuel_eur.t = "float"
                                      /\ r.loyer_mensuel_eur.v < Cents(MAX_RENT)),
              LAMBDA r : r.surface_m2.t = "float"
                         /\ r.surface_m2.v < Cents(MAX_SURFACE))

\* lines 325-347
clean_extreme_values(d) ==
    SelectSeq(SelectSeq(d, LAMBDA r : le(r.loyer_mensuel_eur, Cents(MAX_RENT))),
              LAMBDA r : le(r.surface_m2, Cents(MAX_SURFACE)))

(***************************************************************************)
(* clean_data.py: the statements of the script, in the order they run      *)
(***************************************************************************)
Stages ==
    {"csv", "loaded", "dedup", "filtered", "priced", "geocoded", "nourl",
     "final"}

InitClean ==
    /\ cstage = "read_csv"
    /\ cdf = <<>>
    /\ \E rows \in [1..NumRecords -> CsvRows] :
          snap = [s \in Stages |->
                    IF s = "csv"
                    THEN [k \in 1..NumRecords |-> [rows[k] EXCEPT !.id = k]]
                    ELSE <<>>]

Snap(s, d) == [snap EXCEPT ![s] = d]

\* lines 23-33: read the CSV, normalise the names of the cities
ReadCsv ==
    /\ cstage = "read_csv"
    /\ LET d == [k \in 1..Len(snap["csv"]) |->
                   [snap["csv"][k] EXCEPT !.ville = normalize_ville(@)]]
       IN  cdf' = d /\ snap' = Snap("loaded", d)
    /\ cstage' = "remove_exact_duplicates"
    /\ UNCHANGED <<scrape_vars, geo_vars, extract_vars, task_vars>>

\* line 71
RemoveExactDuplicates ==
    /\ cstage = "remove_exact_duplicates"
    /\ cdf' = remove_exact_duplicates(cdf)
    /\ snap' = Snap("dedup", remove_exact_duplicates(cdf))
    /\ cstage' = "drop_rows_with_missing_core_fields"
    /\ UNCHANGED <<scrape_vars, geo_vars, extract_vars, task_vars>>

\* line 99
DropRowsWithMissingCoreFields ==
    /\ cstage = "drop_rows_with_missing_core_fields"
    /\ cdf' = drop_rows_with_missing_core_fields(cdf)
    /\ snap' = Snap("filtered", drop_rows_with_missing_core_fields(cdf))
    /\ cstage' = "add_price_per_m2_column"
    /\ UNCHANGED <<scrape_vars, geo_vars, extract_vars, task_vars>>

\* line 129
AddPricePerM2Column(copy_on_write) ==
    /\ cstage = "add_price_per_m2_column"
    /\ cdf' = add_price_per_m2_column(cdf, copy_on_write)
    /\ snap' = Snap("priced", add_price_per_m2_column(cdf, copy_on_write))
    /\ cstage' = "add_gps_coordinates_positionstack"
    /\ UNCHANGED <<scrape_vars, geo_vars, extract_vars, task_vars>>

\* the frame the geocoder is entered with at line 311
geocoder_input(d) == [k \in 1..Len(d) |-> [adresse |-> d[k].adresse]]

\* the geocoder entered with the rows of the CSV as read
CallGeocoder_on_csv ==
    /\ cstage = "add_gps_coordinates_positionstack"
    /\ gpc = "idle"
    /\ gpc' = "start"
    /\ df' = geocoder_input(snap["loaded"])
    /\ gps_max_workers' = MaxWorkers
    /\ cstage' = "geocoding"
    /\ UNCHANGED <<has_adresse, api_key, unique_addrs, wpc, wresult, gyielded,
                   addr_to_coords, out, api_calls, geo_responses, writes>>
    /\ UNCHANGED <<cdf, snap>>
    /\ UNCHANGED <<scrape_vars, extract_vars, task_vars>>

\* line 311, the call: add_gps_coordinates_positionstack(df) with the
\* default api_key=None and the default max_workers
CallGeocoder ==
    /\ cstage = "add_gps_coordinates_positionstack"
    /\ gpc = "idle"
    /\ gpc' = "start"
    /\ df' = geocoder_input(cdf)
    /\ gps_max_workers' = MaxWorkers
    /\ cstage' = "geocoding"
    /\ UNCHANGED <<has_adresse, api_key, unique_addrs, wpc, wresult, gyielded,
                   addr_to_coords, out, api_calls, geo_responses, writes>>
    /\ UNCHANGED <<cdf, snap>>
    /\ UNCHANGED <<scrape_vars, extract_vars, task_vars>>

\* line 311, the assignment: df is the copy with the columns lat and lon
GeocoderReturns ==
    /\ cstage = "geocoding"
    /\ gpc = "returned"
    /\ LET d == [k \in 1..Len(cdf) |->
                   ("lat" :> out[k].lat) @@ ("lon" :> out[k].lon) @@ cdf[k]]
       IN  cdf' = d /\ snap' = Snap("geocoded", d)
    /\ cstage' = "drop_url_column"
    /\ UNCHANGED <<scrape_vars, geo_vars, extract_vars, task_vars>>

\* line 323
DropUrlColumn ==
    /\ cstage = "drop_url_column"
    /\ cdf' = drop_url_column(cdf)
    /\ snap' = Snap("nourl", drop_url_column(cdf))
    /\ cstage' = "clean_extreme_values"
    /\ UNCHANGED <<scrape_vars, geo_vars, extract_vars, task_vars>>

\* lines 349-362: the last filter, and the frame written to the clean CSV
CleanExtremeValues ==
    /\ cstage = "clean_extreme_values"
    /\ cdf' = clean_extreme_values(cdf)
    /\ snap' = Snap("final", clean_extreme_values(cdf))
    /\ cstage' = "done"
    /\ UNCHANGED <<scrape_vars, geo_vars, extract_vars, task_vars>>

NextClean ==
    \/ ReadCsv
    \/ RemoveExactDuplicates
    \/ DropRowsWithMissingCoreFields
    \/ \E copy_on_write \in BOOLEAN : AddPricePerM2Column(copy_on_write)
    \/ CallGeocoder
    \/ NextGeo
    \/ GeocoderReturns
    \/ DropUrlColumn
    \/ CleanExtremeValues

(***************************************************************************)
(* extract_listings_from_html called on one page, for every property type  *)
(***************************************************************************)
\* the keys of PROPERTY_TYPES, all five
PROPERTY_TYPES == <<"chambre", "maison", "appartement", "studio",
                    "appartement_etudiant">>

\* what m.group("ptype") can be for a text node that matches TITLE_PATTERN
PtypeGroups ==
    {None, "maison", "MAISON", "appartement", "studio", "chambre",
     "mai(U+017F)on"}

\* the title matches of the page: a well-formed title for each type word,
\* titles whose group surface is malformed ("1.2.3", ",") or has a decimal
\* comma, a title whose rooms are too many digits for int(), and a title
\* that no price node follows
TitleMatches ==
    {PlainTitle(ptype) : ptype \in PtypeGroups}
    \cup {MalformedSurfaceTitle(None),
          Title(None, [len |-> 1, value |-> 3], <<",">>, <<"5", "0", "0">>),
          Title(None, [len |-> 1, value |-> 3], <<"7", ",", "5">>,
                <<"5", "0", "0">>),
          Title(None, [len |-> INT_MAX_STR_DIGITS + 1, value |-> 0],
                <<"7", "3">>, <<"5", "0", "0">>),
          Title(None, [len |-> 1, value |-> 3], <<"7", "3">>, <<>>)}

InitExtract ==
    /\ xkey \in {PROPERTY_TYPES[n] : n \in 1..Len(PROPERTY_TYPES)}
    /\ xnodes \in UNION {[1..n -> TitleMatches] : n \in 0..MaxTitles}
    /\ xlistings = <<>>
    /\ xdone = FALSE
    /\ int_max_str_digits \in {NO_LIMIT, INT_MAX_STR_DIGITS}

\* the call extract_listings_from_html(html, city, region, xkey, page=1)
ExtractListings ==
    /\ ~xdone
    /\ xlistings' =
          extract_listings_from_html(
             [body |-> "html", nodes |-> xnodes],
             [region |-> "Ile-de-France", city |-> "Paris",
              property_type_key |-> xkey],
             1)
    /\ xdone' = TRUE
    /\ UNCHANGED <<xkey, xnodes, int_max_str_digits>>
    /\ UNCHANGED <<scrape_vars, geo_vars, clean_vars, task_vars>>

NextExtract == ExtractListings

(***************************************************************************)
(* scrape_all_prefectures_parallel: the task list and its submission, for  *)
(* the configured gazetteer and catalog and for smaller ones               *)
(***************************************************************************)
\* the first n regions of the configured gazetteer, the first m
\* prefectures of each
cut(n, m) ==
    [ri \in 1..n |->
       [region |-> CONFIGURED_PREFECTURES[ri].region,
        cities |-> SubSeq(CONFIGURED_PREFECTURES[ri].cities, 1, m)]]

InitTasks ==
    /\ gazetteer \in {CONFIGURED_PREFECTURES}
                       \cup {cut(n, m) : n \in 0..MaxRegions, m \in 0..MaxCities}
    /\ catalog \in {SubSeq(PROPERTY_TYPES, 1, n) : n \in 0..Len(PROPERTY_TYPES)}
    /\ tstage = "build"
    /\ tlist = <<>>
    /\ tsubmitted = <<>>

\* lines 320-325
BuildTasks ==
    /\ tstage = "build"
    /\ tlist' = tasks_of(gazetteer, catalog)
    /\ tstage' = IF tasks_of(gazetteer, catalog) = <<>> THEN "done" ELSE "submit"
    /\ UNCHANGED <<gazetteer, catalog, tsubmitted>>
    /\ UNCHANGED <<scrape_vars, geo_vars, clean_vars, extract_vars>>

\* lines 332-340: executor.submit for the next tuple of tasks
SubmitTask ==
    /\ tstage = "submit"
    /\ tsubmitted' = Append(tsubmitted, tlist[Len(tsubmitted) + 1])
    /\ tstage' = IF Len(tsubmitted) + 1 = Len(tlist) THEN "done" ELSE "submit"
    /\ UNCHANGED <<gazetteer, catalog, tlist>>
    /\ UNCHANGED <<scrape_vars, geo_vars, clean_vars, extract_vars>>

NextTasks == BuildTasks \/ SubmitTask

(***************************************************************************)
(* Specifications                                                          *)
(***************************************************************************)
\* the geocoder while the scraper runs: not called
GeoIdle ==
    /\ gpc = "idle"
    /\ df = <<>>
    /\ has_adresse = TRUE
    /\ api_key = None
    /\ gps_max_workers = 1
    /\ unique_addrs = <<>>
    /\ wpc = <<>>
    /\ wresult = <<>>
    /\ gyielded = {}
    /\ addr_to_coords = <<>>
    /\ out = <<>>
    /\ api_calls = <<>>
    /\ geo_responses = <<>>
    /\ writes = <<>>

\* the scraper while the geocoder runs: not started
ScrapeIdle ==
    /\ max_workers = 1
    /\ opc = "idle"
    /\ futures = {}
    /\ yielded = {}
    /\ results = <<>>
    /\ errors = 0
    /\ pc = [i \in TaskIds |-> "unsubmitted"]
    /\ page = [i \in TaskIds |-> 0]
    /\ html = [i \in TaskIds |-> NoPage]
    /\ all_listings = [i \in TaskIds |-> <<>>]
    /\ fetched = [i \in TaskIds |-> <<>>]
    /\ inflight = [i \in TaskIds |-> {}]
    /\ responses = [i \in TaskIds |-> <<>>]
    /\ reason = [i \in TaskIds |-> None]

\* clean_data.py not run
CleanIdle ==
    /\ cstage = "idle"
    /\ cdf = <<>>
    /\ snap = <<>>

\* extract_listings_from_html not called on its own
ExtractIdle ==
    /\ xkey = None
    /\ xnodes = <<>>
    /\ xlistings = <<>>
    /\ xdone = FALSE
    /\ int_max_str_digits = INT_MAX_STR_DIGITS

\* the task list not built on its own
TasksIdle ==
    /\ gazetteer = <<>>
    /\ catalog = <<>>
    /\ tstage = "idle"
    /\ tlist = <<>>
    /\ tsubmitted = <<>>

\* the geocoding stage on its own
InitGeoStage == InitGeo /\ ScrapeIdle /\ CleanIdle /\ ExtractIdle /\ TasksIdle

SpecGeo == InitGeoStage /\ [][NextGeo]_vars

\* clean_data.py run as a script on the CSV the scraper saved
InitCleanStage == InitClean /\ GeoIdle /\ ScrapeIdle /\ ExtractIdle /\ TasksIdle

SpecClean == InitCleanStage /\ [][NextClean]_vars

\* one call of extract_listings_from_html
InitExtractCall == InitExtract /\ GeoIdle /\ ScrapeIdle /\ CleanIdle /\ TasksIdle

SpecExtract == InitExtractCall /\ [][NextExtract]_vars

\* the task list on its own
InitTaskList == InitTasks /\ GeoIdle /\ ScrapeIdle /\ CleanIdle /\ ExtractIdle

SpecTasks == InitTaskList /\ [][NextTasks]_vars

\* the fetch stage on its own
InitFetchStage == InitScrape /\ GeoIdle /\ CleanIdle /\ ExtractIdle /\ TasksIdle

SpecScrape == InitFetchStage /\ [][NextScrape]_vars

\* the two stages that run on a pool and the task list of the fetch stage,
\* each started on its own
InitStages == InitFetchStage \/ InitGeoStage \/ InitTaskList

NextStages == NextScrape \/ NextGeo \/ NextTasks

SpecStages == InitStages /\ [][NextStages]_vars

\* the scraper's page loop, and a call of extract_listings_from_html alone
InitHarvest == InitFetchStage \/ InitExtractCall

NextHarvest == NextScrape \/ NextExtract

SpecHarvest == InitHarvest /\ [][NextHarvest]_vars

\* a pool thread that can take a step takes one (every requests.get returns
\* or times out after 15 s), and so does the thread of the orchestrator
Worker(i) ==
    \/ StartTask(i)
    \/ FetchStart(i)
    \/ \E resp \in Responses : FetchEnd(i, resp)
    \/ Extract(i)

Orchestrator ==
    \/ \E i \in TaskIds : Submit(i)
    \/ \E i \in TaskIds : Collect(i)
    \/ Return

FairScrape ==
    /\ SpecScrape
    /\ WF_vars(Orchestrator)
    /\ \A i \in TaskIds : WF_vars(Worker(i))

(***************************************************************************)
(* What the history of a task says it must return                          *)
(***************************************************************************)
\* the request for page n of task i was answered with no page: a non-200
\* status or a requests.RequestException
NoPageAt(i, n) ==
    /\ responses[i][n].kind \in {"response", "RequestException"}
    /\ responses[i][n].kind = "response" => responses[i][n].status # 200

\* the request for page n of task i was answered 200 with a non-empty body
FetchedOk(i, n) ==
    /\ responses[i][n].kind = "response"
    /\ responses[i][n].status = 200
    /\ responses[i][n].text.body # ""

\* the candidates of page n of task i
CandidatesOf(i, n) ==
    IF FetchedOk(i, n)
    THEN extract_listings_from_html(responses[i][n].text, tasks[i], n)
    ELSE <<>>

\* the candidates of pages 1..n of task i, in page order
RECURSIVE PagesUpTo(_, _)
PagesUpTo(i, n) ==
    IF n = 0 THEN <<>> ELSE PagesUpTo(i, n - 1) \o CandidatesOf(i, n)

IsPrefix(s, t) == Len(s) <= Len(t) /\ SubSeq(t, 1, Len(s)) = s

\* page n of task i has been answered and the loop body is through with it
Processed(i, n) ==
    /\ n <= Len(responses[i])
    /\ ~(pc[i] = "extract" /\ n = Len(responses[i]))

(***************************************************************************)
(* C1: when the fetch of page N yields no page (non-200 status or          *)
(* transport error) the task stops: page N is the last page it ever        *)
(* requests, it does not raise, and it returns exactly the listings of     *)
(* pages 1..N-1.                                                           *)
(***************************************************************************)
C1_FetchFailureStops ==
    \A i \in TaskIds : \A n \in 1..Len(responses[i]) :
        NoPageAt(i, n) =>
            /\ pc[i] = "returned"
            /\ Len(fetched[i]) = n
            /\ \A k \in 1..Len(fetched[i]) : fetched[i][k] <= n
            /\ all_listings[i] = PagesUpTo(i, n - 1)

\* a task stopped by a failed fetch of page 2, holding the listings of page 1,
\* and the orchestrator has taken its result without an error
C1_Witness ==
    \E i \in TaskIds :
        /\ Len(responses[i]) = 2
        /\ NoPageAt(i, 2)
        /\ all_listings[i] # <<>>
        /\ i \in yielded
        /\ errors = 0

(***************************************************************************)
(* C2: when page N is fetched but yields zero candidates the task ends     *)
(* without requesting a later page and returns the listings of pages       *)
(* 1..N-1; when it yields candidates they are all appended and the next    *)
(* page requested is N+1.                                                  *)
(***************************************************************************)
C2_EmptyStopsElseAdvance ==
    \A i \in TaskIds : \A n \in 1..Len(responses[i]) :
        (FetchedOk(i, n) /\ Processed(i, n)) =>
            IF CandidatesOf(i, n) = <<>>
            THEN /\ pc[i] = "returned"
                 /\ Len(fetched[i]) = n
                 /\ all_listings[i] = PagesUpTo(i, n - 1)
            ELSE /\ IsPrefix(PagesUpTo(i, n), all_listings[i])
                 /\ Len(fetched[i]) > n => fetched[i][n + 1] = n + 1
                 /\ (n < max_pages /\ pc[i] \in {"returned", "raised"})
                        => Len(fetched[i]) > n

\* a task whose page 1 gave candidates and whose page 2 held a title that
\* type resolution rejected: it ended on the empty extraction
C2_Witness ==
    \E i \in TaskIds :
        /\ Len(responses[i]) = 2
        /\ FetchedOk(i, 1) /\ CandidatesOf(i, 1) # <<>>
        /\ FetchedOk(i, 2) /\ CandidatesOf(i, 2) = <<>>
        /\ responses[i][2].text.nodes # <<>>
        /\ pc[i] = "returned"
        /\ fetched[i] = <<1, 2>>

(***************************************************************************)
(* C3: the pages a task requests are 1, 2, ..., k in this order with       *)
(* k <= max_pages, at most one request of the task is in flight, and page  *)
(* N+1 is requested only after page N was answered and processed.          *)
(***************************************************************************)
C3_SequentialPagination ==
    \A i \in TaskIds :
        /\ Len(fetched[i]) <= max_pages
        /\ \A k \in 1..Len(fetched[i]) : fetched[i][k] = k
        /\ Cardinality(inflight[i]) <= 1
        /\ \A k \in 2..Len(fetched[i]) :
              /\ Processed(i, k - 1)
              /\ (k - 1) \notin inflight[i]
              /\ IsPrefix(PagesUpTo(i, k - 1), all_listings[i])

\* a task has its page 2 in flight while the other task has a request in
\* flight too
C3_Witness ==
    \E i, j \in TaskIds :
        /\ i # j
        /\ inflight[i] = {2}
        /\ inflight[j] # {}

(***************************************************************************)
(* The aggregate against the histories of the tasks                        *)
(***************************************************************************)
\* what the history of task i says the task returns
ExpectedReturn(i) == PagesUpTo(i, Len(responses[i]))

Range(s) == {s[k] : k \in 1..Len(s)}

\* how many times l occurs in the sequence s
Count(s, l) == Cardinality({k \in 1..Len(s) : s[k] = l})

\* the task a listing was extracted by
FromTask(l, i) ==
    /\ l.type_bien = tasks[i].property_type_key
    /\ l.ville = tasks[i].city
    /\ l.region = tasks[i].region

Ended(i) == pc[i] \in {"returned", "raised"}

(***************************************************************************)
(* C4: a task that raises contributes no record and does not abort,        *)
(* cancel or change the result of a sibling: the orchestrator still        *)
(* returns, every task has run to its end, and the aggregate holds every   *)
(* record of every task that returned.                                     *)
(***************************************************************************)
C4_AtReturn ==
    opc = "returned" =>
        \A i \in TaskIds :
            /\ Ended(i)
            /\ pc[i] = "raised" =>
                  \A l \in Range(results) : ~FromTask(l, i)
            /\ pc[i] = "returned" =>
                  /\ all_listings[i] = ExpectedReturn(i)
                  /\ \A l \in Range(all_listings[i]) : l \in Range(results)

C4_TaskErrorIsolated ==
    /\ [](opc \in {"submit", "collect", "returned"})
    /\ []C4_AtReturn
    /\ (\E i \in TaskIds : pc[i] = "raised") ~> (opc = "returned")

\* the orchestrator has returned; one task raised on page 2 after page 1 gave
\* it listings, its sibling returned listings and they are in the aggregate
C4_Witness ==
    /\ opc = "returned"
    /\ errors = 1
    /\ results # <<>>
    /\ \E i, j \in TaskIds :
          /\ pc[i] = "raised"
          /\ Len(responses[i]) = 2
          /\ CandidatesOf(i, 1) # <<>>
          /\ pc[j] = "returned"
          /\ all_listings[j] # <<>>

(***************************************************************************)
(* C5: whatever the order in which the tasks complete, the aggregate is,   *)
(* as a multiset, the union of the lists returned by the tasks handed over *)
(* so far, each exactly once; a task whose page 2 failed to fetch counts   *)
(* with the listings of its page 1.                                        *)
(***************************************************************************)
RECURSIVE CountInTasks(_, _)
CountInTasks(n, l) ==
    IF n = 0 THEN 0
    ELSE CountInTasks(n - 1, l)
         + (IF n \in yielded /\ pc[n] = "returned"
            THEN Count(ExpectedReturn(n), l) ELSE 0)

C5_AggregateIsUnion ==
    /\ \A l \in Range(results) :
          Count(results, l) = CountInTasks(Len(tasks), l)
    /\ \A i \in yielded : pc[i] = "returned" =>
          \A l \in Range(ExpectedReturn(i)) :
              Count(results, l) = CountInTasks(Len(tasks), l)
    /\ opc = "returned" => yielded = TaskIds

\* both tasks returned listings, the second task completed first, and the
\* first one was stopped by a failed fetch of its page 2
C5_Witness ==
    /\ opc = "returned"
    /\ pc[1] = "returned" /\ pc[2] = "returned"
    /\ Len(responses[1]) = 2 /\ NoPageAt(1, 2)
    /\ all_listings[2] # <<>>
    /\ Len(results) = Len(all_listings[1]) + Len(all_listings[2])
    /\ FromTask(results[1], 2)
    /\ FromTask(results[Len(results)], 1)

(***************************************************************************)
(* C6: every run completes. A task requests at most max_pages pages and    *)
(* ends; when it returns it is for one of the three reasons (page limit,   *)
(* failed fetch, empty extraction) and with what it accumulated; once all  *)
(* tasks have ended the orchestrator returns the aggregate.                *)
(***************************************************************************)
C6_TaskEnd ==
    \A i \in TaskIds :
        /\ Len(fetched[i]) <= max_pages
        /\ pc[i] = "returned" =>
              LET n == Len(responses[i])
              IN /\ n = Len(fetched[i])
                 /\ n >= 1
                 /\ all_listings[i] = ExpectedReturn(i)
                 /\ \/ reason[i] = "max_pages" /\ n = max_pages
                                               /\ CandidatesOf(i, n) # <<>>
                    \/ reason[i] = "fetch_failure" /\ ~FetchedOk(i, n)
                    \/ reason[i] = "empty_extraction" /\ FetchedOk(i, n)
                                               /\ CandidatesOf(i, n) = <<>>

C6_RunCompletes ==
    /\ []C6_TaskEnd
    /\ \A i \in TaskIds : <>[]Ended(i)
    /\ <>[](opc = "returned" /\ \A i \in TaskIds : Ended(i))

\* the run is over and the three ways a task returns and the task error all
\* occur in the model: witnessed by a run with a task at the page limit and
\* a task that raised
C6_Witness ==
    /\ opc = "returned"
    /\ \E i, j \in TaskIds :
          /\ pc[i] = "returned" /\ reason[i] = "max_pages"
          /\ pc[j] = "raised"

(***************************************************************************)
(* What the rows and the answers of PositionStack say the geocoder must do *)
(***************************************************************************)
Blank(s) == \A k \in 1..Len(s) : s[k] = " "

\* the address of a row without its leading and trailing whitespace, the
\* empty string for a missing address: stated, not computed by strip
Trimmed(a) ==
    LET s == IF a = NaN THEN <<>> ELSE a
    IN CHOOSE t \in {SubSeq(s, i, j) : i \in 1..Len(s) + 1, j \in 0..Len(s)} :
          /\ t = <<>> \/ (t[1] # " " /\ t[Len(t)] # " ")
          /\ \E i \in 1..Len(s) + 1, j \in 0..Len(s) :
                /\ t = SubSeq(s, i, j)
                /\ Blank(SubSeq(s, 1, i - 1))
                /\ Blank(SubSeq(s, j + 1, Len(s)))

\* the distinct non-empty trimmed addresses of the rows
DistinctAddresses == {Trimmed(df[r].adresse) : r \in 1..Len(df)} \ {<<>>}

\* a transport error, a non-success status, an empty result set or a
\* coordinate that is a non-numeric string
IsFailure(resp) ==
    \/ resp.kind = "RequestException"
    \/ resp.kind = "response" /\ resp.status # 200
    \/ resp.kind = "response" /\ resp.status = 200 /\ resp.data = <<>>
    \/ /\ resp.kind = "response" /\ resp.status = 200 /\ resp.data # <<>>
       /\ \/ resp.data[1].latitude.t = "str"
          \/ resp.data[1].longitude.t = "str"

\* a result with a numeric latitude and a numeric longitude
IsResolved(resp) ==
    /\ resp.kind = "response" /\ resp.status = 200 /\ resp.data # <<>>
    /\ resp.data[1].latitude.t = "num"
    /\ resp.data[1].longitude.t = "num"

BuildOver == gpc = "returned" \/ (gpc = "collect" /\ gyielded = Futures)

(***************************************************************************)
(* C7: an external call is issued only for a non-empty trimmed address of  *)
(* a row, and at most once per distinct trimmed address however many rows  *)
(* share it and however the workers interleave; at the end each distinct   *)
(* address was called once.                                                *)
(***************************************************************************)
C7_OneCallPerAddress ==
    /\ \A k \in 1..Len(api_calls) :
          /\ api_calls[k] # <<>>
          /\ api_calls[k] \in DistinctAddresses
    /\ \A k, m \in 1..Len(api_calls) : k # m => api_calls[k] # api_calls[m]
    /\ gpc = "returned" =>
          \A a \in DistinctAddresses : Count(api_calls, a) = 1

\* two rows whose addresses differ only by surrounding whitespace were
\* geocoded with one call
C7_Witness ==
    /\ gpc = "returned"
    /\ df[1].adresse # df[2].adresse
    /\ Trimmed(df[1].adresse) = Trimmed(df[2].adresse)
    /\ Trimmed(df[1].adresse) # <<>>
    /\ Len(api_calls) = 1

(***************************************************************************)
(* C8: a call that ends in a transport error, a non-success status, an     *)
(* empty result set or a non-numeric coordinate resolves its address to    *)
(* (None, None); the function does not raise for it, and an address whose  *)
(* call gave numeric coordinates holds exactly these.                      *)
(***************************************************************************)
C8_FailureIsUnresolved ==
    /\ gpc = "raised" => (~has_adresse \/ api_key = "") /\ api_calls = <<>>
    /\ \A k \in Futures : k \in gyielded =>
          LET resp == geo_responses[k]
              a == unique_addrs[k]
          IN /\ a \in DOMAIN addr_to_coords
             /\ IsFailure(resp) => addr_to_coords[a] = NoneNone
             /\ IsResolved(resp) =>
                   addr_to_coords[a] =
                      <<PyFloat(resp.data[1].latitude.v),
                        PyFloat(resp.data[1].longitude.v)>>

\* the run is over: one address got a non-numeric latitude and is
\* unresolved, the other one is resolved
C8_Witness ==
    /\ gpc = "returned"
    /\ \E k, m \in Futures :
          /\ geo_responses[k].data # <<>>
          /\ geo_responses[k].data[1].latitude.t = "str"
          /\ geo_responses[k].data[1].longitude.t = "num"
          /\ addr_to_coords[unique_addrs[k]] = NoneNone
          /\ IsResolved(geo_responses[m])
          /\ addr_to_coords[unique_addrs[m]] # NoneNone

(***************************************************************************)
(* C9: rows get coordinates only when every worker has finished; a row     *)
(* with a non-empty trimmed address gets the pair the table holds for it,  *)
(* so rows sharing a trimmed address get the same pair; a row whose        *)
(* address is empty or unresolved gets None, None.                         *)
(***************************************************************************)
C9_CoordinatesByLookup ==
    /\ gpc # "returned" => out = <<>>
    /\ gpc = "returned" =>
          /\ \A k \in Futures : wpc[k] = "done" /\ k \in gyielded
          /\ Len(out) = Len(df)
          /\ \A r \in 1..Len(df) :
                LET t == Trimmed(df[r].adresse)
                IN /\ out[r].adresse = df[r].adresse
                   /\ IF t = <<>>
                      THEN out[r].lat = PyNone /\ out[r].lon = PyNone
                      ELSE /\ t \in DOMAIN addr_to_coords
                           /\ <<out[r].lat, out[r].lon>> = addr_to_coords[t]
                           /\ addr_to_coords[t] = NoneNone =>
                                 out[r].lat = PyNone /\ out[r].lon = PyNone
          /\ \A r, q \in 1..Len(df) :
                Trimmed(df[r].adresse) = Trimmed(df[q].adresse) =>
                   out[r].lat = out[q].lat /\ out[r].lon = out[q].lon

\* two rows whose addresses differ only by surrounding whitespace both got
\* the numeric coordinates of their address
C9_Witness ==
    /\ gpc = "returned"
    /\ df[1].adresse # df[2].adresse
    /\ Trimmed(df[1].adresse) = Trimmed(df[2].adresse)
    /\ out[1].lat.t = "float" /\ out[1].lon.t = "float"
    /\ out[2].lat = out[1].lat /\ out[2].lon = out[1].lon

(***************************************************************************)
(* C10: during the build each address key is written once and never        *)
(* overwritten, in every order of completion; when the build ends the keys *)
(* are the distinct non-empty trimmed addresses, and the table is not      *)
(* written afterwards.                                                     *)
(***************************************************************************)
C10_TableState ==
    /\ \A k, m \in 1..Len(writes) : k # m => writes[k] # writes[m]
    /\ DOMAIN addr_to_coords = Range(writes)
    /\ BuildOver /\ gpc # "raised" => DOMAIN addr_to_coords = DistinctAddresses

C10_TableStep ==
    /\ \A a \in DOMAIN addr_to_coords :
          a \in DOMAIN addr_to_coords' /\ addr_to_coords'[a] = addr_to_coords[a]
    /\ BuildOver => addr_to_coords' = addr_to_coords /\ writes' = writes

C10_WriteOnce == []C10_TableState /\ [][C10_TableStep]_vars

\* the run is over and the table holds two keys, written in the reverse of
\* the order of submission
C10_Witness ==
    /\ gpc = "returned"
    /\ Len(writes) = 2
    /\ unique_addrs = <<writes[2], writes[1]>>


(***************************************************************************)
(* The cleaning pipeline: what the claims speak of                         *)
(***************************************************************************)
Statements ==
    <<"read_csv", "remove_exact_duplicates",
      "drop_rows_with_missing_core_fields", "add_price_per_m2_column",
      "add_gps_coordinates_positionstack", "geocoding", "drop_url_column",
      "clean_extreme_values", "done">>

\* the statement has run
Ran(stmt) ==
    \E n, m \in 1..Len(Statements) :
       Statements[n] = stmt /\ Statements[m] = cstage /\ n < m

IdsOf(d) == {d[k].id : k \in 1..Len(d)}

\* o lists, in the order of d, exactly the rows of d that satisfy P
ExactlyThose(o, d, P(_)) ==
    /\ \A n \in 1..Len(o) : \E k \in 1..Len(d) : o[n] = d[k]
    /\ \A n, m \in 1..Len(o) : n < m => o[n].id < o[m].id
    /\ IdsOf(o) = {d[k].id : k \in {j \in 1..Len(d) : P(d[j])}}

(***************************************************************************)
(* C11: no row with surface_m2 = 0 is in the final dataset of the pipeline *)
(* and no row of the final dataset has an infinite prix_m2.                *)
(***************************************************************************)
C11_NoZeroSurfaceNoInfinitePrice ==
    cstage = "done" =>
       \A k \in 1..Len(snap["final"]) :
          /\ snap["final"][k].surface_m2 # PyFloat(0)
          /\ snap["final"][k].prix_m2.t # "inf"

\* a row of surface 0 is in the final dataset, its prix_m2 nulled
C11_Witness ==
    /\ cstage = "done"
    /\ \E k \in 1..Len(snap["final"]) :
          /\ snap["final"][k].surface_m2 = PyFloat(0)
          /\ snap["final"][k].prix_m2 = NaNCell

(***************************************************************************)
(* C12: geocoding runs after the removal of duplicates and the filter of   *)
(* missing core fields and before the filter of extreme values: every      *)
(* address an external call is issued for is the address of a row that     *)
(* survived both, and the filter of extreme values is applied to rows that *)
(* carry lat and lon.                                                      *)
(***************************************************************************)
C12_GeocodingBetweenFilters ==
    /\ api_calls # <<>> =>
          /\ Ran("drop_rows_with_missing_core_fields")
          /\ \A n \in 1..Len(api_calls) :
                \E i \in IdsOf(snap["dedup"]) \cap IdsOf(snap["filtered"]) :
                   api_calls[n] = Trimmed(snap["csv"][i].adresse)
    /\ Ran("clean_extreme_values") =>
          /\ gpc = "returned"
          /\ snap["final"] = clean_extreme_values(snap["nourl"])
          /\ \A k \in 1..Len(snap["nourl"]) :
                {"lat", "lon"} \subseteq DOMAIN snap["nourl"][k]
          /\ \A k \in 1..Len(snap["final"]) :
                {"lat", "lon"} \subseteq DOMAIN snap["final"][k]
    /\ ~Ran("clean_extreme_values") => snap["final"] = <<>>

\* a row was dropped for a missing field and its address was never sent,
\* the address of a surviving row was, and the last filter removed a row
\* that had been geocoded
C12_Witness ==
    /\ cstage = "done"
    /\ api_calls = << <<"a">> >>
    /\ \E k \in 1..Len(snap["csv"]) :
          /\ snap["csv"][k].adresse = <<"b">>
          /\ snap["csv"][k].id \notin IdsOf(snap["filtered"])
    /\ Len(snap["final"]) < Len(snap["nourl"])

(***************************************************************************)
(* C13: remove_exact_duplicates returns, in the order of its input, the    *)
(* first row of each distinct (titre, ville, surface_m2, nb_pieces,        *)
(* loyer_mensuel_eur) and drops every later row with the same five values; *)
(* applied to its own output it removes nothing.                           *)
(***************************************************************************)
SameFive(r, q) ==
    /\ r.titre = q.titre
    /\ r.ville = q.ville
    /\ r.surface_m2 = q.surface_m2
    /\ r.nb_pieces = q.nb_pieces
    /\ r.loyer_mensuel_eur = q.loyer_mensuel_eur

Present(c) == c # NaNCell

AllThreePresent(r) ==
    /\ Present(r.loyer_mensuel_eur)
    /\ Present(r.surface_m2)
    /\ Present(r.nb_pieces)

C14_MissingCoreFieldDropped ==
    /\ Ran("drop_rows_with_missing_core_fields") =>
          ExactlyThose(snap["filtered"], snap["dedup"], AllThreePresent)
    /\ cstage = "done" =>
          \A k \in 1..Len(snap["final"]) : AllThreePresent(snap["final"][k])

\* a row that misses only nb_pieces was dropped and a complete row reached
\* the final dataset
C14_Witness ==
    /\ cstage = "done"
    /\ snap["final"] # <<>>
    /\ \E k \in 1..Len(snap["dedup"]) :
          /\ snap["dedup"][k].nb_pieces = NaNCell
          /\ Present(snap["dedup"][k].loyer_mensuel_eur)
          /\ Present(snap["dedup"][k].surface_m2)
          /\ snap["dedup"][k].id \notin IdsOf(snap["filtered"])

(***************************************************************************)
(* C15: clean_extreme_values keeps a row if and only if its rent is at     *)
(* most 15000 and its surface at most 1000, both bounds inclusive: in      *)
(* hundredths, 1500000 and 100000 are kept, 1500001 and 100001 dropped.    *)
(***************************************************************************)
WithinBounds(r) ==
    /\ r.loyer_mensuel_eur.t = "float" /\ r.loyer_mensuel_eur.v < 1500001
    /\ r.surface_m2.t = "float" /\ r.surface_m2.v < 100001

C15_InclusiveBounds ==
    Ran("clean_extreme_values") =>
       /\ ExactlyThose(snap["final"], snap["nourl"], WithinBounds)
       /\ \A k \in 1..Len(snap["nourl"]) :
             LET r == snap["nourl"][k]
             IN  /\ (r.loyer_mensuel_eur.v = 1500000 /\ r.surface_m2.v = 100000)
                       => r.id \in IdsOf(snap["final"])
                 /\ (r.loyer_mensuel_eur.v = 1500001 \/ r.surface_m2.v = 100001)
                       => r.id \notin IdsOf(snap["final"])

\* a row at both thresholds was kept and a row one hundredth above the
\* rent threshold was dropped
C15_Witness ==
    /\ Ran("clean_extreme_values")
    /\ \E k \in 1..Len(snap["final"]) :
          /\ snap["final"][k].loyer_mensuel_eur = PyFloat(1500000)
          /\ snap["final"][k].surface_m2 = PyFloat(100000)
    /\ \E k \in 1..Len(snap["nourl"]) :
          /\ snap["nourl"][k].loyer_mensuel_eur = PyFloat(1500001)
          /\ snap["nourl"][k].id \notin IdsOf(snap["final"])


(***************************************************************************)
(* C16: type resolution.  Under a task that is not broad (chambre, maison, *)
(* appartement) a title match with a type word is accepted if and only if  *)
(* the word is the label of the task, and one without a type word is       *)
(* accepted; every accepted match gets the type of the task.  As first     *)
(* stated: under the two broad tasks (studio, appartement_etudiant) every   *)
(* title match is accepted.                                                *)
(***************************************************************************)
Broad(key) == key \in {"studio", "appartement_etudiant"}

\* the type word, whatever its case, is the label of the task
IsOwnLabel(key, word) ==
    \/ key = "chambre" /\ word = "chambre"
    \/ key = "maison" /\ word \in {"maison", "MAISON"}
    \/ key = "appartement" /\ word = "appartement"

AcceptedAsStated(node) ==
    \/ Broad(xkey)
    \/ node.ptype = None
    \/ IsOwnLabel(xkey, node.ptype)

\* the titles of the records returned
Titles == [k \in 1..Len(xlistings) |-> xlistings[k].titre]

AcceptedAmended(node) ==
    \/ node.ptype = None
    \/ /\ Broad(xkey)
       /\ node.ptype \in {"maison", "MAISON", "appartement", "studio",
                          "chambre"}
    \/ /\ ~Broad(xkey)
       /\ IsOwnLabel(xkey, node.ptype)

CrossProduct ==
    UNION {{[region |-> gazetteer[ri].region, city |-> c,
             property_type_key |-> k] :
               c \in Range(gazetteer[ri].cities), k \in Range(catalog)} :
           ri \in 1..Len(gazetteer)}

\* stated of the tuple submitted last, in every state: it is in the cross
\* product and was not submitted before
C20_TasksAreCrossProduct ==
    /\ tsubmitted # <<>> =>
          LET last == tsubmitted[Len(tsubmitted)]
          IN  /\ last \in CrossProduct
              /\ \A n \in 1..(Len(tsubmitted) - 1) : tsubmitted[n] # last
    /\ tstage = "done" =>
          /\ Range(tsubmitted) = CrossProduct
          /\ Len(tsubmitted) = Cardinality(CrossProduct)

\* the configured gazetteer and the whole catalog: 89 prefectures times 5
\* property types were submitted
C20_Witness ==
    /\ tstage = "done"
    /\ gazetteer = CONFIGURED_PREFECTURES
    /\ catalog = PROPERTY_TYPES
    /\ Len(tsubmitted) = 445


(***************************************************************************)
(* C17: in one run over the configured gazetteer and catalog no two        *)
(* records of the aggregate have the same id: the id is made of the        *)
(* property type key, the city, the page and the counter of the page, the  *)
(* counter goes up by one per accepted title, and each (city, type, page)  *)
(* is extracted at most once.                                              *)
(***************************************************************************)
\* the ids the tasks of tlist give on the pages and counters in range
IdsOfTasks ==
    {listing_id(tlist[n].property_type_key, tlist[n].city, page_no, idx) :
        n \in 1..Len(tlist), page_no \in 1..max_pages, idx \in 1..MaxTitles}

\* the records the tasks hold, one task after the other
Held == Flatten([i \in TaskIds |-> all_listings[i]])

C17_IdsUnique ==
    /\ \A m, n \in 1..Len(results) : results[m].id = results[n].id => m = n
    /\ \A m, n \in 1..Len(Held) : Held[m].id = Held[n].id => m = n
    /\ tstage = "done" =>
          Cardinality(IdsOfTasks) = Len(tlist) * max_pages * MaxTitles

\* the aggregate returned holds the first record of two pages of one task
\* and the first record of another task
C17_Witness ==
    /\ opc = "returned"
    /\ {"maison_paris_p1_1", "maison_paris_p2_1", "studio_paris_p1_1"}
          \subseteq {results[n].id : n \in 1..Len(results)}


(***************************************************************************)
(* C18: a configuration error aborts before any work begins: when the      *)
(* frame has no column 'adresse' or the key is empty,                      *)
(* add_gps_coordinates_positionstack raises before a worker is submitted   *)
(* and before an external call is issued, and no other error leaves the    *)
(* function.                                                               *)
(***************************************************************************)
ConfigurationError == ~has_adresse \/ api_key = ""

C18_ConfigurationErrorAborts ==
    /\ ConfigurationError =>
          /\ gpc \in {"start", "raised"}
          /\ unique_addrs = <<>>
          /\ wpc = <<>>
          /\ api_calls = <<>>
          /\ out = <<>>
    /\ gpc = "raised" => ConfigurationError
    /\ (gpc \notin {"idle", "start", "raised"}) => api_key = HARDCODED_KEY

\* the function raised for an empty key although a row has an address
C18_Witness ==
    /\ gpc = "raised"
    /\ has_adresse
    /\ api_key = ""
    /\ \E r \in 1..Len(df) : df[r].adresse = <<"a">>

(***************************************************************************)
(* C19: in both stages that run on a pool the units of work executing at   *)
(* the same time never exceed max_workers: at most max_workers tasks run   *)
(* in the fetch stage and at most max_workers geocoding calls are in       *)
(* flight in the geocode stage.                                            *)
(***************************************************************************)
C19_PoolBound ==
    /\ Cardinality(Running) <= max_workers
    /\ Cardinality(Calling) <= gps_max_workers

\* the pool of the geocode stage is full and an address waits for a thread
C19_Witness ==
    /\ Cardinality(Calling) = gps_max_workers
    /\ \E k \in Futures : wpc[k] = "queued"


(***************************************************************************)
(* C21: the final dataset is an order-preserving subsequence of the raw    *)
(* input: each of dedup, missing-field filter, derivation, geocoding and   *)
(* extreme-value filter only removes rows or adds columns, so surviving    *)
(* rows keep their relative order and no row is added or re-sorted.        *)
(***************************************************************************)
\* row r is row q with the columns of q unchanged, but for those in except
Extends(r, q, except) ==
    /\ DOMAIN q \ except \subseteq DOMAIN r
    /\ \A f \in DOMAIN q \ except : r[f] = q[f]

\* the rows of o are rows of d, in the order they have in d
OrderedSelection(o, d, except) ==
    \E pos \in [1..Len(o) -> 1..Len(d)] :
       /\ \A n, m \in 1..Len(o) : n < m => pos[n] < pos[m]
       /\ \A n \in 1..Len(o) : Extends(o[n], d[pos[n]], except)

C21_OrderPreservingSubsequence ==
    /\ Ran("remove_exact_duplicates") =>
          OrderedSelection(snap["dedup"], snap["loaded"], {})
    /\ Ran("drop_rows_with_missing_core_fields") =>
          OrderedSelection(snap["filtered"], snap["dedup"], {})
    /\ Ran("add_price_per_m2_column") =>
          /\ OrderedSelection(snap["priced"], snap["filtered"], {})
          /\ Len(snap["priced"]) = Len(snap["filtered"])
    /\ Ran("geocoding") =>
          /\ OrderedSelection(snap["geocoded"], snap["priced"], {})
          /\ Len(snap["geocoded"]) = Len(snap["priced"])
    /\ Ran("clean_extreme_values") =>
          /\ OrderedSelection(snap["final"], snap["nourl"], {})
          /\ OrderedSelection(snap["final"], snap["csv"], {"ville", "url"})
          /\ \A n, m \in 1..Len(snap["final"]) :
                n < m => snap["final"][n].id < snap["final"][m].id

\* both rows of the CSV are in the final dataset, in the order of the CSV,
\* with the columns the pipeline added
C21_Witness ==
    /\ cstage = "done"
    /\ Len(snap["final"]) = 2
    /\ snap["final"][1].id = snap["csv"][1].id
    /\ snap["final"][2].id = snap["csv"][2].id
    /\ {"prix_m2", "lat", "lon"} \subseteq DOMAIN snap["final"][1]


(***************************************************************************)
(* C23: remove_exact_duplicates treats two rows as duplicates only when    *)
(* they have the same type_bien as well as the same titre, ville,          *)
(* surface_m2, nb_pieces and loyer_mensuel_eur: two rows that differ in    *)
(* type_bien and agree on the other five are both kept.                    *)
(***************************************************************************)
C23_TypeBienDistinguishes ==
    Ran("remove_exact_duplicates") =>
       \A k \in 1..Len(snap["loaded"]) :
          snap["loaded"][k].id \notin IdsOf(snap["dedup"]) =>
             \E j \in 1..(k - 1) :
                /\ SameFive(snap["loaded"][j], snap["loaded"][k])
                /\ snap["loaded"][j].type_bien = snap["loaded"][k].type_bien

\* a row of type studio was dropped as the duplicate of a row of type maison
C23_Witness ==
    /\ Ran("remove_exact_duplicates")
    /\ Len(snap["loaded"]) = 2
    /\ snap["loaded"][1].type_bien = "maison"
    /\ snap["loaded"][2].type_bien = "studio"
    /\ SameFive(snap["loaded"][1], snap["loaded"][2])
    /\ snap["dedup"] = <<snap["loaded"][1]>>


(***************************************************************************)
(* C24: every row of the geocoded dataset has lat and lon both numeric or  *)
(* both null: a response whose first result lacks the latitude or the      *)
(* longitude resolves the address to (null, null), never to a pair with    *)
(* one coordinate.                                                         *)
(***************************************************************************)
C24_BothOrNeither ==
    /\ \A k \in 1..Len(wresult) :
          (wresult[k][1] = PyNone) <=> (wresult[k][2] = PyNone)
    /\ gpc = "returned" =>
          \A r \in 1..Len(out) : (out[r].lat = PyNone) <=> (out[r].lon = PyNone)

\* the first result had a null latitude and a numeric longitude, and a row
\* of the frame returned has lon without lat
C24_Witness ==
    /\ gpc = "returned"
    /\ \E k \in Futures :
          /\ geo_responses[k].kind = "response"
          /\ geo_responses[k].status = 200
          /\ geo_responses[k].data # <<>>
          /\ geo_responses[k].data[1].latitude = JNull
          /\ geo_responses[k].data[1].longitude.t = "num"
    /\ \E r \in 1..Len(out) : out[r].lat = PyNone /\ out[r].lon # PyNone


(***************************************************************************)
(* C22: a title that matches the title pattern and passes type resolution  *)
(* but whose surface or room-count substring fails numeric parsing still   *)
(* yields a record, with that field null: the extraction of the page does  *)
(* not abort, the other matches of the page are still emitted, and the     *)
(* record counts as a candidate for the pagination decision; only the      *)
(* missing-core-field filter removes it later.                             *)
(***************************************************************************)
\* the titles among nodes that pass type resolution for key, in order
Resolved(nodes, key) ==
    SelectSeq(nodes, LAMBDA node : accepts(key, lower(node.ptype)))

\* float() rejects the surface substring once its commas are dots
SurfaceFails(node) ==
    LET str == [k \in 1..Len(node.surface) |->
                  IF node.surface[k] = "," THEN "." ELSE node.surface[k]]
    IN  \/ Cardinality({k \in 1..Len(str) : str[k] = "."}) >= 2
        \/ \A k \in 1..Len(str) : str[k] \notin Digits

\* int() rejects the room-count substring
RoomsFail(node) ==
    int_max_str_digits # NO_LIMIT /\ node.rooms.len > int_max_str_digits

\* one record per resolved title, in order, null exactly where the parse
\* fails
RecordPerResolvedTitle(listings, nodes, key) ==
    /\ Len(listings) = Len(Resolved(nodes, key))
    /\ \A k \in 1..Len(listings) :
          /\ listings[k].titre = Resolved(nodes, key)[k]
          /\ (listings[k].surface_m2 = PyNone)
                <=> SurfaceFails(listings[k].titre)
          /\ (listings[k].nb_pieces = PyNone) <=> RoomsFail(listings[k].titre)

\* the row of the CSV that a record becomes
CsvRowOf(r) ==
    [r EXCEPT !.surface_m2 = to_numeric(r.surface_m2),
              !.nb_pieces = to_numeric(r.nb_pieces),
              !.loyer_mensuel_eur = to_numeric(r.loyer_mensuel_eur)]

\* the records all_listings[i] holds for page n, by the position of the
\* page's records after those of the pages before it
RECURSIVE ResolvedUpTo(_, _)
ResolvedUpTo(i, n) ==
    IF n = 0 THEN <<>>
    ELSE ResolvedUpTo(i, n - 1)
         \o (IF FetchedOk(i, n)
             THEN Resolved(responses[i][n].text.nodes,
                           tasks[i].property_type_key)
             ELSE <<>>)

Unparsed(node) == SurfaceFails(node) \/ RoomsFail(node)

C22_UnparsedFieldStillYieldsRecord ==
    /\ xdone =>
          /\ RecordPerResolvedTitle(xlistings, xnodes, xkey)
          /\ \A k \in 1..Len(xlistings) :
                Unparsed(xlistings[k].titre) =>
                    drop_rows_with_missing_core_fields(
                       <<CsvRowOf(xlistings[k])>>) = <<>>
    /\ \A i \in TaskIds : \A n \in 1..Len(responses[i]) :
          LET resolved == Resolved(responses[i][n].text.nodes,
                                   tasks[i].property_type_key)
          IN  (/\ FetchedOk(i, n)
               /\ Processed(i, n)
               /\ \E k \in 1..Len(resolved) : Unparsed(resolved[k])) =>
                 /\ Len(all_listings[i]) >= Len(ResolvedUpTo(i, n))
                 /\ \A k \in 1..Len(ResolvedUpTo(i, n)) :
                       all_listings[i][k].titre = ResolvedUpTo(i, n)[k]
                 /\ (n < max_pages /\ pc[i] \in {"returned", "raised"})
                       => /\ Len(fetched[i]) > n
                          /\ fetched[i][n + 1] = n + 1

\* a page with a malformed surface between two well-formed titles gave two
\* records, the first with a null surface
C22_ExtractWitness ==
    /\ xdone
    /\ xkey = "maison"
    /\ xnodes = <<MalformedSurfaceTitle(None), PlainTitle("maison")>>
    /\ Len(xlistings) = 2
    /\ xlistings[1].surface_m2 = PyNone
    /\ xlistings[1].nb_pieces = PyInt(3)
    /\ xlistings[2].surface_m2 = PyFloat(7300)

\* a room count too long for int() gave a record with null rooms, and the
\* same title under an interpreter without the limit a record with rooms
C22_RoomsWitness ==
    /\ xdone
    /\ Len(xlistings) = 2
    /\ xlistings[1].titre.rooms.len > INT_MAX_STR_DIGITS
    /\ xlistings[1].nb_pieces = PyNone
    /\ xlistings[1].surface_m2 = PyFloat(7300)
    /\ xlistings[2].nb_pieces = PyInt(3)

\* a task whose page 1 held only a record with a null surface went on to
\* request page 2 and returned with that record
C22_Witness ==
    \E i \in TaskIds :
        /\ pc[i] = "returned"
        /\ Len(responses[i]) = 2
        /\ FetchedOk(i, 1)
        /\ responses[i][1].text.nodes
              = <<PlainTitle("appartement"), MalformedSurfaceTitle(None)>>
        /\ fetched[i] = <<1, 2>>
        /\ Len(all_listings[i]) >= 1
        /\ all_listings[i][1].surface_m2 = PyNone
        /\ all_listings[i][1].titre = MalformedSurfaceTitle(None)

=============================================================================
